---- MODULE Spec2Model ----
(***************************************************************************)
(* Model of the CoTrial RAG v2 service: the hybrid retrieval orchestrator  *)
(* (src/retrieval/hybrid.py), the quality evaluation it consults           *)
(* (src/utils/agentic_router.py) and the FastAPI process around it         *)
(* (src/api/server.py).                                                    *)
(*                                                                         *)
(* Numbers.  Python floats are modelled as exact fixed-point integers:     *)
(* a score s is the integer s * 100000 (ScoreOne stands for 1.0) and a     *)
(* quality q is the integer q * 100.  Raw scores are multiples of 1000, so *)
(* every product the code forms (score * quality, * 1.3, * 0.8) is an      *)
(* integer in score units.                                                 *)
(*                                                                         *)
(* Dictionaries.  A key that may be absent is modelled as a set with at    *)
(* most one element: {} is the absent key, {v} the key bound to v.         *)
(*                                                                         *)
(* Lists that Python passes as "the list or None" are sequences; None is   *)
(* the empty sequence (the code tests them only for truthiness).           *)
(***************************************************************************)
EXTENDS Integers, Sequences, FiniteSets, TLC

VARIABLES
    \* ---- src/api/server.py: module globals and the requests in flight
    retriever,          \* global retriever: {} (None) or {an orchestrator record}
    config,             \* global config: {} (None) or {[top_k |-> n]}
    answer_generator,   \* global answer_generator: TRUE iff not None
    _initialized,       \* global _initialized
    phase,              \* "boot"; serving: "lifespan" (after startup) or "lambda"
                        \* (lifespan off); "failed" (startup raised); "stopped"
    reqs,               \* per request: position in middleware/handler, response
    built,              \* history: orchestrators constructed and loaded, by whom
    \* ---- src/retrieval/hybrid.py: one orchestrator driven directly
    hr,                 \* the orchestrator object (loaded, pdf_retriever, mysql_client)
    hrCall,             \* the search call in progress: its inputs and its outcome
    hrLife,             \* history: the last of __init__ ("new"), "load", "close"
    \* ---- _combine_results_intelligently as a pure function
    cmbIn,              \* the arguments drawn
    cmbOut,             \* the list returned
    cmbPc,              \* "drawn" before the call, "done" after it
    \* ---- the other functions that are driven on their own
    fnIn,               \* the arguments drawn
    fnOut,              \* the value returned
    fnPc                \* "drawn" before the call, "done" after it

apiVars == <<retriever, config, answer_generator, _initialized, phase, reqs, built>>
hybVars == <<hr, hrCall, hrLife>>
cmbVars == <<cmbIn, cmbOut, cmbPc>>
fnVars == <<fnIn, fnOut, fnPc>>
vars == <<retriever, config, answer_generator, _initialized, phase, reqs, built,
          hr, hrCall, hrLife, cmbIn, cmbOut, cmbPc, fnIn, fnOut, fnPc>>

----------------------------------------------------------------------------
(* Bounds of the model *)

\* longest vector-store answer, cache content and SQL row set that is enumerated
MaxLen == 2

\* 1.0 in score units, and one hundredth of it
ScoreOne == 1000 * 100
ScoreStep == ScoreOne \div 100

\* similarities of cached questions to the live query (0.2 and 1.0)
Similarities == {20 * ScoreStep, 100 * ScoreStep}
\* quality scores the evaluation may carry (0.3, 0.5, 1.0), besides an absent key
Qualities == {30, 50, 100}
\* top_k values handed to the combiner
TopKs == {1, 2}

----------------------------------------------------------------------------
(* Python helpers *)

\* seq[:n] for any integer n (a negative n counts from the end)
PySlice(seq, n) ==
    IF n >= 0
    THEN SubSeq(seq, 1, IF n < Len(seq) THEN n ELSE Len(seq))
    ELSE SubSeq(seq, 1, IF Len(seq) + n > 0 THEN Len(seq) + n ELSE 0)

\* dict.get(key, default) on an optional key
Get(opt, default) == IF opt = {} THEN default ELSE CHOOSE v \in opt : TRUE

RECURSIVE InsertDesc(_, _)
InsertDesc(sorted, x) ==
    IF sorted = <<>> THEN <<x>>
    ELSE IF Head(sorted).score >= x.score
         THEN <<Head(sorted)>> \o InsertDesc(Tail(sorted), x)
         ELSE <<x>> \o sorted

RECURSIVE StableSortDesc(_)
StableSortDesc(seq) ==
    IF seq = <<>> THEN <<>>
    ELSE InsertDesc(StableSortDesc(SubSeq(seq, 1, Len(seq) - 1)), seq[Len(seq)])

\* mutation of SortByScore: the list is returned in insertion order
SortByScore_unsorted(seq) == seq

\* list.sort(key=score, reverse=True): stable, highest score first
SortByScore(seq) == StableSortDesc(seq)

\* all sequences over S of length at most n
SeqsUpTo(S, n) == UNION {[1..k -> S] : k \in 0..n}

IsNonIncreasing(seq) ==
    \A i \in 1..Len(seq) : \A j \in 1..Len(seq) : i < j => seq[i].score >= seq[j].score

Corpora(seq) == {seq[i].corpus : i \in 1..Len(seq)}

----------------------------------------------------------------------------
(* Outcomes of calls that may raise *)

\* a call that returned val, having made the external calls in trace
Ok(val, trace) == [exc |-> "none", val |-> val, trace |-> trace]
\* a call that raised
Raised(exc, trace) == [exc |-> exc, val |-> <<>>, trace |-> trace]

\* try: <call> / except Exception: <result is the empty list>
OrEmpty(out) == IF out.exc = "none" THEN out ELSE Ok(<<>>, out.trace)

----------------------------------------------------------------------------
(* HybridRetriever._combine_results_intelligently *)

\* the comparison  quality > 0.3
QualityThreshold == 30

\* mutation of PassesQuality: the threshold is inclusive
PassesQuality_inclusive(quality) == quality >= QualityThreshold

PassesQuality(quality) == quality > QualityThreshold

RecommendsPdf(recommendation) ==
    recommendation \in {"use_pdf", "use_both", "use_all", "use_pdf_sas", "use_pdf_context"}

RecommendsSas(recommendation) ==
    recommendation \in {"use_sas", "use_both", "use_all", "use_pdf_sas", "use_sas_context"}

\* result["score"] = result["score"] * num / den, for every result of the list
Rescore(results, num, den) ==
    [i \in 1..Len(results) |->
        [results[i] EXCEPT !.score = (@ * num) \div den]]

\* a quality value of the evaluation: a number, or (num = FALSE) a JSON value
\* that is not a number, which Python cannot compare with 0.3
QNum(n) == [num |-> TRUE, n |-> n]
QOther == [num |-> FALSE, n |-> 0]

_combine_results_intelligently(pdf_results, sas_results, context_results, evaluation, top_k) ==
    LET recommendation == Get(evaluation.recommendation, "use_both")
        pdf_quality == Get(evaluation.pdf_quality, QNum(0))
        sas_quality == Get(evaluation.sas_quality, QNum(0))
        context_quality == Get(evaluation.context_quality, QNum(0))
        use_context_as_sas == Len(context_results) > 0 /\ Len(sas_results) = 0
        \* the comparisons with 0.3 that are evaluated, and whether one raises TypeError
        type_error ==
            \/ RecommendsPdf(recommendation) /\ ~pdf_quality.num
            \/ use_context_as_sas /\ ~context_quality.num
            \/ ~use_context_as_sas /\ RecommendsSas(recommendation) /\ ~sas_quality.num
            \/ Len(context_results) > 0 /\ ~use_context_as_sas /\ ~context_quality.num
        pdf_part ==
            IF RecommendsPdf(recommendation) /\ PassesQuality(pdf_quality.n)
            THEN Rescore(pdf_results, pdf_quality.n, 100)
            ELSE <<>>
        sas_part ==
            IF use_context_as_sas
            THEN IF PassesQuality(context_quality.n)
                 THEN Rescore(context_results, context_quality.n * 13, 1000)
                 ELSE <<>>
            ELSE IF RecommendsSas(recommendation) /\ PassesQuality(sas_quality.n)
                 THEN Rescore(sas_results, sas_quality.n, 100)
                 ELSE <<>>
        supplement ==
            IF Len(context_results) > 0 /\ ~use_context_as_sas
               /\ PassesQuality(context_quality.n)
            THEN Rescore(context_results, context_quality.n * 8, 1000)
            ELSE <<>>
        combined == pdf_part \o sas_part \o supplement
    IN  IF type_error THEN Raised("TypeError", <<>>)
        ELSE Ok(PySlice(SortByScore(combined), top_k * 2), <<>>)

----------------------------------------------------------------------------
(* VectorDBRetriever.search and VectorDBClient.search *)

\* similarity_score = max(0.0, 1.0 - distance)
SimilarityScore(distance) == IF ScoreOne - distance > 0 THEN ScoreOne - distance ELSE 0

\* vec: what the vector store does during this call
\*   count_raises: collection.count() raises;  query_raises: collection.query() raises
\*   dists: the stored documents' distances to the query, nearest first
VectorSearch(vec, top_k) ==
    IF vec.count_raises THEN Raised("Exception", <<"vector_count">>)
    ELSE IF Len(vec.dists) = 0 THEN Ok(<<>>, <<"vector_count">>)
    ELSE IF vec.query_raises \/ top_k < 1
         \* VectorDBClient.search catches the failed query and returns no ids
         THEN Ok(<<>>, <<"vector_count", "vector_query">>)
         ELSE LET found == PySlice(vec.dists, top_k)
              IN  Ok([i \in 1..Len(found) |->
                        [corpus |-> "pdf",
                         chunk_id |-> [name |-> "doc", idx |-> i],
                         score |-> SimilarityScore(found[i])]],
                     <<"vector_count", "vector_query">>)

----------------------------------------------------------------------------
(* HybridRetriever._search_sas_sql *)

AggregateVocabulary ==
    {"count", "sum", "avg", "min", "max", "total", "average", "minimum", "maximum"}

\* a row is [keys: its column names (lower-cased), nonnull: the columns with a value]
IsAggregation(rows) ==
    \E i \in 1..Len(rows) : \E col \in rows[i].keys : col \in AggregateVocabulary

\* rows of one aggregation are rendered at most this long
MaxAggregationRows == 10

RowsToResults(rows) ==
    IF IsAggregation(rows) /\ Len(rows) <= MaxAggregationRows
    THEN IF \E i \in 1..Len(rows) : rows[i].nonnull # {}
         THEN <<[corpus |-> "sas",
                 chunk_id |-> [name |-> "sql_aggregation_result", idx |-> 0],
                 score |-> ScoreOne]>>
         ELSE <<>>
    ELSE [i \in 1..Len(rows) |->
            [corpus |-> "sas",
             chunk_id |-> [name |-> "sql_result", idx |-> i - 1],
             score |-> ScoreOne - (i - 1) * (ScoreOne \div 10)]]

\* sql: what SQL generation and the database do during this call
\*   gen_raises: generate_sql raises;  exec_raises: execute_query_with_limit raises
\*   rows: the rows the statement returns
SqlCalls(sql) ==
    IF sql.gen_raises THEN Raised("Exception", <<"generate_sql">>)
    ELSE IF sql.exec_raises THEN Raised("Exception", <<"generate_sql", "execute_sql">>)
    ELSE Ok(RowsToResults(sql.rows), <<"generate_sql", "execute_sql">>)

_search_sas_sql(mysql_client, sql) ==
    IF ~mysql_client THEN Ok(<<>>, <<>>) ELSE OrEmpty(SqlCalls(sql))

----------------------------------------------------------------------------
(* HybridRetriever._search_context *)

\* cache: what the Q&A cache does during this call
\*   raises: get_examples raises
\*   sims: the similarity to the query of each example get_examples returns,
\*         in the order returned (the weighted Jaccard/exact/partial score)
ContextScored(cache, top_k) ==
    IF cache.raises THEN Raised("Exception", <<"cache">>)
    ELSE Ok(PySlice(SortByScore(
                [i \in 1..Len(cache.sims) |->
                    [corpus |-> "context",
                     chunk_id |-> [name |-> "context", idx |-> i - 1],
                     score |-> IF cache.sims[i] < ScoreOne THEN cache.sims[i] ELSE ScoreOne]]),
              top_k),
            <<"cache">>)

_search_context(cache, top_k) == OrEmpty(ContextScored(cache, top_k))

----------------------------------------------------------------------------
(* AgenticRouter.evaluate_result_quality *)

\* llm: the evaluation call's outcome.  ok = FALSE: the call raised, the content
\* was empty or it was not a JSON object; otherwise dict is the object parsed
FallbackEvaluation(pdf_results, sas_results, context_results) ==
    [pdf_quality |-> {QNum(IF Len(pdf_results) > 0 THEN 70 ELSE 0)},
     sas_quality |-> {QNum(IF Len(sas_results) > 0 THEN 70 ELSE 0)},
     context_quality |-> {QNum(IF Len(context_results) > 0 THEN 80 ELSE 0)},
     recommendation |->
        {IF Len(pdf_results) > 0 /\ Len(sas_results) > 0 THEN "use_both"
         ELSE IF Len(pdf_results) > 0 THEN "use_pdf" ELSE "use_sas"}]

evaluate_result_quality(llm, pdf_results, sas_results, context_results) ==
    IF llm.ok THEN llm.dict
    ELSE FallbackEvaluation(pdf_results, sas_results, context_results)

----------------------------------------------------------------------------
(* HybridRetriever: __init__, load, close, search *)

\* pdf_retriever: "none" (None), "unloaded" or "loaded" (VectorDBRetriever.loaded)
\* mysql_client: TRUE iff not None
NewRetriever == [loaded |-> FALSE, pdf_retriever |-> "none", mysql_client |-> FALSE]

\* env.vdb: "ctor_raises" (VectorDBRetriever(...) raises), "load_raises", "ok"
\* env.mysql: "ctor_raises" (MySQLClient(...) raises), "ok"
load(self, env) ==
    [self EXCEPT
        !.pdf_retriever = CASE env.vdb = "ctor_raises" -> @
                            [] env.vdb = "load_raises" -> "unloaded"
                            [] OTHER -> "loaded",
        !.mysql_client = IF env.mysql = "ctor_raises" THEN @ ELSE TRUE,
        !.loaded = TRUE]

LoadEnvs == [vdb : {"ctor_raises", "load_raises", "ok"}, mysql : {"ctor_raises", "ok"}]

close(self) ==
    [self EXCEPT !.pdf_retriever = IF @ = "none" THEN @ ELSE "unloaded",
                 !.loaded = FALSE]

\* routes route_query can return (an LLM route outside them is replaced by the
\* keyword fallback's, which is one of them)
Routes == {"pdf", "sas", "both"}

SearchPdf(route) == route \in {"pdf", "both", "all", "pdf+context"}
SearchSas(route) == route \in {"sas", "both", "all", "sas+context"}

\* the comparison  context_results[0]["score"] > 0.5
CacheHitThreshold == 50 * ScoreStep

\* mutation of HasGoodContextMatch: the cache's answer is never taken as a hit
HasGoodContextMatch_never(context_results) == FALSE

HasGoodContextMatch(context_results) ==
    Len(context_results) > 0 /\ context_results[1].score > CacheHitThreshold

\* mutation of SearchPdfGuard: the vector search's exception is not caught
SearchPdfGuard_propagates(out) == out

\* try: pdf_results = self.pdf_retriever.search(...) / except: pdf_results = []
SearchPdfGuard(out) == OrEmpty(out)

\* try: sas_results = self._search_sas_sql(...) / except: sas_results = []
SearchSasGuard(out) == OrEmpty(out)

\* mutation of NotLoadedGuard: search does not look at the loaded flag
NotLoadedGuard_absent(self) == FALSE

\* if not self.loaded: raise RuntimeError("Retriever not loaded. Call load() first.")
NotLoadedGuard(self) == ~self.loaded

\* the dictionary search() would hand back on an exception: no result sets
SearchRaised(exc, route, trace) ==
    [exc |-> exc, val |-> <<>>, trace |-> trace, route |-> route,
     pdf_results |-> <<>>, sas_results |-> <<>>, context_results |-> <<>>]

\* w: what the router, the cache, the SQL path, the vector store and the
\* evaluation do during this call
search(self, w, top_k) ==
    IF NotLoadedGuard(self) THEN SearchRaised("NotLoaded", "", <<>>)
    ELSE
    LET route == w.route
        search_pdf == SearchPdf(route)
        search_sas == SearchSas(route)
        ctx == IF search_sas THEN _search_context(w.cache, 3) ELSE Ok(<<>>, <<>>)
        hit == search_sas /\ ctx.exc = "none" /\ HasGoodContextMatch(ctx.val)
        sas == IF search_sas /\ ctx.exc = "none" /\ ~hit /\ self.mysql_client
               THEN SearchSasGuard(_search_sas_sql(self.mysql_client, w.sql))
               ELSE Ok(<<>>, <<>>)
        pdf == IF search_pdf /\ self.pdf_retriever = "loaded"
               THEN SearchPdfGuard(VectorSearch(w.vec, top_k))
               ELSE Ok(<<>>, <<>>)
        t1 == <<"route_query">> \o ctx.trace
        t2 == t1 \o sas.trace
        t3 == t2 \o pdf.trace
        evaluation == evaluate_result_quality(w.llm, pdf.val, sas.val, ctx.val)
        combined == _combine_results_intelligently(pdf.val, sas.val, ctx.val, evaluation, top_k)
    IN  IF ctx.exc # "none" THEN SearchRaised(ctx.exc, route, t1)
        ELSE IF sas.exc # "none" THEN SearchRaised(sas.exc, route, t2)
        ELSE IF pdf.exc # "none" THEN SearchRaised(pdf.exc, route, t3)
        ELSE IF combined.exc # "none"
             THEN SearchRaised(combined.exc, route, t3 \o <<"evaluate">>)
        ELSE [exc |-> "none", val |-> combined.val, trace |-> t3 \o <<"evaluate">>,
              route |-> route, pdf_results |-> pdf.val, sas_results |-> sas.val,
              context_results |-> ctx.val]

----------------------------------------------------------------------------
(* The inputs enumerated *)

\* rows a statement can return: an aggregate with a value, an aggregate that is
\* NULL, and a plain record
AggRow == [keys |-> {"count"}, nonnull |-> {"count"}]
NullAggRow == [keys |-> {"max"}, nonnull |-> {}]
PlainRow == [keys |-> {"subjid", "sex"}, nonnull |-> {"subjid"}]
RowSets == {<<>>, <<AggRow>>, <<NullAggRow>>, <<PlainRow>>, <<PlainRow, PlainRow>>}

SqlWorlds ==
    {[gen_raises |-> TRUE, exec_raises |-> FALSE, rows |-> <<>>],
     [gen_raises |-> FALSE, exec_raises |-> TRUE, rows |-> <<>>]}
    \cup {[gen_raises |-> FALSE, exec_raises |-> FALSE, rows |-> r] : r \in RowSets}

\* vector stores: empty, one document, and three documents of two distances
NearDoc == 10 * ScoreStep
FarDoc == 60 * ScoreStep
Stores == {<<>>, <<NearDoc>>, <<FarDoc>>, <<NearDoc, NearDoc, FarDoc>>}

VecWorlds ==
    {[count_raises |-> TRUE, query_raises |-> FALSE, dists |-> <<NearDoc>>],
     [count_raises |-> FALSE, query_raises |-> TRUE, dists |-> <<NearDoc>>]}
    \cup {[count_raises |-> FALSE, query_raises |-> FALSE, dists |-> d] : d \in Stores}

CacheWorlds ==
    {[raises |-> TRUE, sims |-> <<>>]}
    \cup {[raises |-> FALSE, sims |-> s] : s \in SeqsUpTo(Similarities, MaxLen)}

Recommendations ==
    {"use_pdf", "use_sas", "use_context", "use_both", "use_all",
     "use_pdf_sas", "use_pdf_context", "use_sas_context"}

\* every evaluation object with numeric qualities; each key may be absent, and
\* the recommendation may be a word outside the documented ones
Evaluations ==
    [recommendation : {{}} \cup {{r} : r \in Recommendations \cup {"other"}},
     pdf_quality : {{}} \cup {{QNum(q)} : q \in Qualities},
     sas_quality : {{}} \cup {{QNum(q)} : q \in Qualities},
     context_quality : {{}} \cup {{QNum(q)} : q \in Qualities}]

EvalOf(rec, pq, sq, cq) ==
    [recommendation |-> rec, pdf_quality |-> pq, sas_quality |-> sq, context_quality |-> cq]

\* evaluation outcomes enumerated with a whole search: the call fails; the
\* object is complete; it rates the cache at the threshold; it lacks every key;
\* it carries a quality that is not a number
LlmWorlds ==
    {[ok |-> FALSE, dict |-> EvalOf({}, {}, {}, {})],
     [ok |-> TRUE, dict |-> EvalOf({"use_both"}, {QNum(100)}, {QNum(50)}, {QNum(100)})],
     [ok |-> TRUE, dict |-> EvalOf({"use_sas"}, {QNum(100)}, {QNum(100)}, {QNum(30)})],
     [ok |-> TRUE, dict |-> EvalOf({}, {}, {}, {})],
     [ok |-> TRUE, dict |-> EvalOf({"use_pdf"}, {QOther}, {QNum(100)}, {QNum(100)})]}

SearchWorlds ==
    [route : Routes, cache : CacheWorlds, sql : SqlWorlds, vec : VecWorlds, llm : LlmWorlds]

----------------------------------------------------------------------------
(* SpecHybrid: one orchestrator object, driven by load(), search(), close() *)

NoCall == [op |-> "none"]

ApiIdle ==
    /\ retriever = {} /\ config = {} /\ answer_generator = FALSE
    /\ _initialized = FALSE /\ phase = "off" /\ reqs = <<>> /\ built = <<>>

FnIdle == fnIn = <<>> /\ fnOut = <<>> /\ fnPc = "off"

CombineIdle == cmbIn = <<>> /\ cmbOut = <<>> /\ cmbPc = "off"

HybridIdle == hr = NewRetriever /\ hrCall = NoCall /\ hrLife = "off"

InitHybrid ==
    /\ hr = NewRetriever
    /\ hrCall = NoCall
    /\ hrLife = "new"
    /\ ApiIdle /\ CombineIdle /\ FnIdle

HrLoad ==
    /\ hrCall = NoCall
    /\ \E env \in LoadEnvs : hr' = load(hr, env)
    /\ hrLife' = "load"
    /\ UNCHANGED <<hrCall, apiVars, cmbVars, fnVars>>

HrClose ==
    /\ hrCall = NoCall
    /\ hr' = close(hr)
    /\ hrLife' = "close"
    /\ UNCHANGED <<hrCall, apiVars, cmbVars, fnVars>>

HrSearch ==
    /\ hrCall = NoCall
    /\ \E w \in SearchWorlds : \E top_k \in TopKs :
          hrCall' = [op |-> "search", w |-> w, top_k |-> top_k, out |-> search(hr, w, top_k)]
    /\ UNCHANGED <<hr, hrLife, apiVars, cmbVars, fnVars>>

\* the caller takes the result (or the exception) and goes on
HrReturn ==
    /\ hrCall # NoCall
    /\ hrCall' = NoCall
    /\ UNCHANGED <<hr, hrLife, apiVars, cmbVars, fnVars>>

NextHybrid == HrLoad \/ HrClose \/ HrSearch \/ HrReturn

SpecHybrid == InitHybrid /\ [][NextHybrid]_vars

----------------------------------------------------------------------------
(* SpecCombine: _combine_results_intelligently on the lists the three sources *)
(* can produce, for every evaluation object                                   *)

PdfResultLists ==
    {VectorSearch([count_raises |-> FALSE, query_raises |-> FALSE, dists |-> d], k).val :
        d \in Stores, k \in 1..3}
SasResultLists == {RowsToResults(r) : r \in RowSets}
ContextResultLists == {_search_context(c, 3).val : c \in CacheWorlds}

InitCombine ==
    /\ cmbIn \in [pdf_results : PdfResultLists, sas_results : SasResultLists,
                  context_results : ContextResultLists, evaluation : Evaluations,
                  top_k : TopKs]
    /\ cmbOut = <<>>
    /\ cmbPc = "drawn"
    /\ ApiIdle /\ HybridIdle /\ FnIdle

Combine ==
    /\ cmbPc = "drawn"
    /\ cmbOut' = _combine_results_intelligently(cmbIn.pdf_results, cmbIn.sas_results,
                     cmbIn.context_results, cmbIn.evaluation, cmbIn.top_k)
    /\ cmbPc' = "done"
    /\ UNCHANGED <<cmbIn, apiVars, hybVars, fnVars>>

NextCombine == Combine

SpecCombine == InitCombine /\ [][NextCombine]_vars

----------------------------------------------------------------------------
(* src/api/server.py: the module globals, the two initializers, the         *)
(* request-id middleware and the handlers of /v1/status and /v1/chat        *)

\* Config.top_k when TOP_K is not set
DefaultTopK == 5
\* results[:10]: the results cited, and the chunks handed to the generator
MaxCitations == 10
\* requests in flight at the same time
NumReqs == 2
\* the counters of `built` stop counting here
MaxBuilt == 3

Reqs == 1..NumReqs

\* the module globals, as one record
Globals ==
    [retriever |-> retriever, config |-> config, answer_generator |-> answer_generator,
     _initialized |-> _initialized, built |-> built]

\* what one run of the initialization block meets:
\*   fail: the call that raises ("from_env", "validate", "ctor" for
\*         HybridRetriever(config)) or "none"
\*   load: what HybridRetriever.load() meets;  answer_ok: AnswerGenerator(config) returns
InitEnvs ==
    {[fail |-> f, load |-> [vdb |-> "ok", mysql |-> "ok"], answer_ok |-> FALSE] :
        f \in {"from_env", "validate", "ctor"}}
    \cup [fail : {"none"}, load : LoadEnvs, answer_ok : BOOLEAN]

\* the run of an initializer that is not entered
NoInitEnv == [fail |-> "none", load |-> [vdb |-> "ok", mysql |-> "ok"], answer_ok |-> FALSE]

Count(n) == IF n < MaxBuilt THEN n + 1 ELSE n

\* the try block of _ensure_initialized and of lifespan: each global is assigned
\* where the code assigns it, so a run that raises keeps what it assigned before
Initialize(g, e, by) ==
    CASE e.fail = "from_env" -> [exc |-> TRUE, g |-> g]
      [] e.fail = "validate" -> [exc |-> TRUE, g |-> [g EXCEPT !.config = {[top_k |-> 0]}]]
      [] e.fail = "ctor" ->
            [exc |-> TRUE, g |-> [g EXCEPT !.config = {[top_k |-> DefaultTopK]}]]
      [] OTHER ->
            [exc |-> FALSE,
             g |-> [g EXCEPT !.config = {[top_k |-> DefaultTopK]},
                             !.retriever = {load(NewRetriever, e.load)},
                             !.answer_generator = e.answer_ok,
                             !.built[by] = Count(@)]]

\* mutation of EnsureGuard: the flag is not consulted
EnsureGuard_absent(g) == FALSE

\* if _initialized: return
EnsureGuard(g) == g._initialized

\* init: "skipped" (the guard returned), "ok" or "failed" (the exception is re-raised)
_ensure_initialized(g, e) ==
    IF EnsureGuard(g) THEN [init |-> "skipped", g |-> g]
    ELSE LET r == Initialize(g, e, "lazy")
         IN  IF r.exc THEN [init |-> "failed", g |-> r.g]
             ELSE [init |-> "ok", g |-> [r.g EXCEPT !._initialized = TRUE]]

\* `not retriever or not retriever.loaded` is false
Ready(g) == g.retriever # {} /\ (CHOOSE x \in g.retriever : TRUE).loaded

Total(b) == b.lazy + b.startup

\* ---- POST /v1/chat

\* request.top_k or (config.top_k if config else 5)
TopKOf(req_top_k, g) ==
    IF req_top_k # {} /\ req_top_k # {0} THEN CHOOSE k \in req_top_k : TRUE
    ELSE IF g.config # {} THEN (CHOOSE c \in g.config : TRUE).top_k
    ELSE DefaultTopK

\* mutation of Citations: every result is cited
Citations_uncut(results) ==
    [i \in 1..Len(results) |->
        [corpus |-> results[i].corpus, chunk_id |-> results[i].chunk_id,
         score |-> results[i].score]]

\* [Citation(corpus, chunk_id, score, snippet) for r in results[:10]]
Citations(results) ==
    [i \in 1..Len(PySlice(results, MaxCitations)) |->
        [corpus |-> results[i].corpus, chunk_id |-> results[i].chunk_id,
         score |-> results[i].score]]

\* the cache holds a question whose similarity mark is above the hit threshold
HotCache(w) ==
    ~w.cache.raises /\ \E i \in 1..Len(w.cache.sims) : w.cache.sims[i] > CacheHitThreshold

\* a response of /v1/chat.  status, citations: what the client receives;
\* unhandled: the handler let an exception other than HTTPException escape;
\* the other fields record what the handler did and met (init, ready: the
\* outcome of _ensure_initialized;  hot_cache: a search ran while the cache
\* held a question above the hit threshold)
ChatResponse(status, unhandled, ens, searched, w, route, top_k, answered, citations) ==
    [status |-> status, unhandled |-> unhandled, init |-> ens.init, ready |-> Ready(ens.g),
     searched |-> searched, hot_cache |-> searched /\ HotCache(w), route |-> route,
     top_k |-> top_k, answered |-> answered, citations |-> citations]

\* gen_ok: AnswerGenerator(config) returns when the handler constructs one
chat(g, req_top_k, e, w, gen_ok) ==
    LET ens == _ensure_initialized(g, e)
        g1 == ens.g
    IN  IF ens.init = "failed"
        THEN [g |-> g1, resp |-> ChatResponse(500, TRUE, ens, FALSE, w, "", 0, "none", <<>>)]
        ELSE IF g1.retriever = {}
        THEN [g |-> g1, resp |-> ChatResponse(503, FALSE, ens, FALSE, w, "", 0, "none", <<>>)]
        ELSE IF ~(CHOOSE x \in g1.retriever : TRUE).loaded
        THEN [g |-> g1, resp |-> ChatResponse(503, FALSE, ens, FALSE, w, "", 0, "none", <<>>)]
        ELSE
        LET top_k == TopKOf(req_top_k, g1)
            out == search(CHOOSE x \in g1.retriever : TRUE, w, top_k)
            generator == g1.answer_generator \/ gen_ok
        IN  IF out.exc # "none"
            THEN [g |-> g1,
                  resp |-> ChatResponse(500, FALSE, ens, TRUE, w, out.route, top_k, "none", <<>>)]
            ELSE IF Len(out.val) = 0
            THEN [g |-> g1,
                  resp |-> ChatResponse(200, FALSE, ens, TRUE, w, out.route, top_k, "none", <<>>)]
            ELSE [g |-> [g1 EXCEPT !.answer_generator = generator],
                  resp |-> ChatResponse(200, FALSE, ens, TRUE, w, out.route, top_k,
                                        IF generator THEN "generated" ELSE "fallback",
                                        Citations(out.val))]

\* ---- GET /v1/status

\* mutation of StatusInitGuard: the failed initialization is not caught
StatusInitGuard_propagates(ens) == [init |-> ens.init, g |-> ens.g, exc |-> ens.init = "failed"]

\* try: _ensure_initialized() / except Exception: pass
StatusInitGuard(ens) == [init |-> ens.init, g |-> ens.g, exc |-> FALSE]

\* mutation of PdfCount: the count is always reported as unknown
PdfCount_unknown(sw) == -1

\* corpora["pdf"]: the count, or -1 when get_count() raises
PdfCount(sw) == IF sw.count_raises THEN -1 ELSE sw.count

\* a response of /v1/status.  seen records what the handler met: the orchestrators
\* built so far, whether the PDF retriever is loaded, whether there is a MySQL
\* client, and the stores of this request (sw below)
StatusResponse(status, unhandled, ens, loaded, corpora, seen) ==
    [status |-> status, unhandled |-> unhandled, init |-> ens.init, ready |-> Ready(ens.g),
     loaded |-> loaded, corpora |-> corpora, seen |-> seen]

NoCorpora == [pdf |-> {}, sas |-> {}]

\* sw: the stores during this request
\*   count: the documents in the collection;  count_raises: collection.count() raises
\*   conn_ok: a connection test (MySQLClient.test_connection()) returns True
get_status(g, e, sw) ==
    LET ens == IF ~g._initialized THEN StatusInitGuard(_ensure_initialized(g, e))
               ELSE [init |-> "skipped", g |-> g, exc |-> FALSE]
        g1 == ens.g
        seen0 == [built |-> Total(g1.built), pdf_loaded |-> FALSE, has_client |-> FALSE,
                  count_raises |-> sw.count_raises, count |-> sw.count,
                  conn_ok |-> sw.conn_ok]
    IN  IF ens.exc
        THEN [g |-> g1, resp |-> StatusResponse(500, TRUE, ens, FALSE, NoCorpora, seen0)]
        ELSE IF ~Ready(g1)
        THEN [g |-> g1, resp |-> StatusResponse(503, FALSE, ens, FALSE, NoCorpora, seen0)]
        ELSE
        LET rt == CHOOSE x \in g1.retriever : TRUE
            pdf_loaded == rt.pdf_retriever = "loaded"
        IN  [g |-> g1,
             resp |-> StatusResponse(200, FALSE, ens, rt.loaded,
                        [pdf |-> IF pdf_loaded THEN {PdfCount(sw)} ELSE {},
                         sas |-> IF rt.mysql_client /\ sw.conn_ok THEN {-1} ELSE {}],
                        [built |-> Total(g1.built), pdf_loaded |-> pdf_loaded,
                         has_client |-> rt.mysql_client,
                         count_raises |-> sw.count_raises, count |-> sw.count,
                         conn_ok |-> sw.conn_ok])]

\* ---- the inputs of the requests

\* a vector store long enough for a search to return more than MaxCitations results
LongStore == [i \in 1..(MaxCitations + 1) |-> NearDoc]

ApiSearchWorlds ==
    [route : Routes,
     cache : {[raises |-> FALSE, sims |-> <<>>], [raises |-> FALSE, sims |-> <<ScoreOne>>]},
     sql : {[gen_raises |-> FALSE, exec_raises |-> TRUE, rows |-> <<>>],
            [gen_raises |-> FALSE, exec_raises |-> FALSE, rows |-> <<PlainRow>>]},
     vec : {[count_raises |-> TRUE, query_raises |-> FALSE, dists |-> <<NearDoc>>],
            [count_raises |-> FALSE, query_raises |-> FALSE, dists |-> <<NearDoc>>],
            [count_raises |-> FALSE, query_raises |-> FALSE, dists |-> LongStore]},
     llm : LlmWorlds]

\* the worlds met when two requests are in flight: the long store answers, the
\* cache is empty, the database answers
FewSearchWorlds ==
    {w \in ApiSearchWorlds :
        /\ w.route # "sas" /\ w.cache.sims = <<>> /\ ~w.sql.exec_raises
        /\ w.vec.dists = LongStore
        /\ ~w.llm.ok}

StatusWorlds == [count_raises : BOOLEAN, count : {0, 3}, conn_ok : BOOLEAN]

FewStatusWorlds == {sw \in StatusWorlds : sw.conn_ok /\ sw.count = 3}

\* top_k of the request body (Optional[int], no range): absent (null), negative,
\* 0, 1, or more than MaxCitations
RequestTopKs == {{}, {-1}, {0}, {1}, {MaxCitations + 1}}

\* the X-Request-ID header of the request: absent, empty, or a value of the client's
RequestHeaders == {{}, {""}, {"client-id"}}

\* request.headers.get("X-Request-ID") or str(uuid.uuid4())
RequestId(header) == IF header = {} \/ header = {""} THEN "uuid4" ELSE CHOOSE h \in header : TRUE

----------------------------------------------------------------------------
(* The process.  It starts either under a server that runs the lifespan     *)
(* (Startup, later Shutdown) or with lifespan off (ColdStart, as under      *)
(* Mangum).  The handlers are coroutines without an await, so each runs to  *)
(* its end without another one in between; requests interleave at the      *)
(* middleware's  await call_next(request).                                  *)
(*   Spec:        NumReqs requests in flight, bodies without top_k, few     *)
(*                worlds                                                    *)
(*   SpecRequest: one request at a time, every input                        *)

NoResp == [status |-> 0]

\* pc: "idle", "mw" (in the middleware, before the handler), "handled" (the
\* handler is done, the middleware not yet), "sent" (what the client received)
\* fresh: no orchestrator had been built when the request arrived
IdleReq ==
    [pc |-> "idle", kind |-> "none", header |-> {}, top_k |-> {}, fresh |-> FALSE,
     resp |-> NoResp, x_request_id |-> {}]

ApiInit(slots) ==
    /\ retriever = {} /\ config = {} /\ answer_generator = FALSE
    /\ _initialized = FALSE
    /\ phase = "boot"
    /\ reqs = [r \in slots |-> IdleReq]
    /\ built = [lazy |-> 0, startup |-> 0]
    /\ HybridIdle /\ CombineIdle /\ FnIdle

SetGlobals(g) ==
    /\ retriever' = g.retriever
    /\ config' = g.config
    /\ answer_generator' = g.answer_generator
    /\ _initialized' = g._initialized
    /\ built' = g.built

Serving == phase \in {"lifespan", "lambda"}

\* lifespan, up to the yield: the same block, without setting _initialized
Startup ==
    /\ phase = "boot"
    /\ \E e \in InitEnvs :
          LET r == Initialize(Globals, e, "startup")
          IN  /\ SetGlobals(r.g)
              /\ phase' = IF r.exc THEN "failed" ELSE "lifespan"
    /\ UNCHANGED <<reqs, hybVars, cmbVars, fnVars>>

\* the module is imported and serves with lifespan off
ColdStart ==
    /\ phase = "boot"
    /\ phase' = "lambda"
    /\ UNCHANGED <<retriever, config, answer_generator, _initialized, reqs, built,
                   hybVars, cmbVars, fnVars>>

\* lifespan, after the yield: the server has finished its requests
Shutdown ==
    /\ phase = "lifespan"
    /\ \A r \in DOMAIN reqs : reqs[r].pc \in {"idle", "sent"}
    /\ retriever' = {close(x) : x \in retriever}
    /\ phase' = "stopped"
    /\ UNCHANGED <<config, answer_generator, _initialized, reqs, built, hybVars, cmbVars, fnVars>>

\* request_id_middleware, up to  await call_next(request)
Arrive(r, headers, top_ks) ==
    /\ Serving
    /\ reqs[r].pc \in {"idle", "sent"}
    /\ \E kind \in {"chat", "status"} : \E header \in headers :
       \E top_k \in (IF kind = "chat" THEN top_ks ELSE {{}}) :
          reqs' = [reqs EXCEPT ![r] =
                      [pc |-> "mw", kind |-> kind, header |-> header, top_k |-> top_k,
                       fresh |-> Total(built) = 0, resp |-> NoResp, x_request_id |-> {}]]
    /\ UNCHANGED <<retriever, config, answer_generator, _initialized, phase, built,
                   hybVars, cmbVars, fnVars>>

\* the inputs are drawn where the handler reads them: the initialization's when
\* the flag is not set, the search's when the handler gets as far as searching
HandleChat(r, worlds) ==
    /\ reqs[r].pc = "mw" /\ reqs[r].kind = "chat"
    /\ \E e \in (IF _initialized THEN {NoInitEnv} ELSE InitEnvs) :
       \E w \in (IF e.fail = "none" THEN worlds ELSE {CHOOSE x \in worlds : TRUE}) :
       \E gen_ok \in (IF answer_generator \/ (~_initialized /\ e.answer_ok)
                      THEN {FALSE} ELSE BOOLEAN) :
          LET o == chat(Globals, reqs[r].top_k, e, w, gen_ok)
          IN  /\ SetGlobals(o.g)
              /\ reqs' = [reqs EXCEPT ![r].pc = "handled", ![r].resp = o.resp]
    /\ UNCHANGED <<phase, hybVars, cmbVars, fnVars>>

HandleStatus(r, worlds) ==
    /\ reqs[r].pc = "mw" /\ reqs[r].kind = "status"
    /\ \E e \in (IF _initialized THEN {NoInitEnv} ELSE InitEnvs) :
       \E sw \in worlds :
          LET o == get_status(Globals, e, sw)
          IN  /\ SetGlobals(o.g)
              /\ reqs' = [reqs EXCEPT ![r].pc = "handled", ![r].resp = o.resp]
    /\ UNCHANGED <<phase, hybVars, cmbVars, fnVars>>

\* request_id_middleware, after call_next: an exception the handler let escape
\* passes through the middleware, which then sets no header.  The client is
\* left with the status code and the header
Respond(r) ==
    /\ reqs[r].pc = "handled"
    /\ reqs' = [reqs EXCEPT ![r] =
                   [IdleReq EXCEPT !.pc = "sent", !.kind = reqs[r].kind,
                                   !.header = reqs[r].header,
                                   !.resp = [status |-> reqs[r].resp.status],
                                   !.x_request_id =
                                       IF reqs[r].resp.unhandled THEN {}
                                       ELSE {RequestId(reqs[r].header)}]]
    /\ UNCHANGED <<retriever, config, answer_generator, _initialized, phase, built,
                   hybVars, cmbVars, fnVars>>

InitApi == ApiInit(Reqs)

Next ==
    \/ Startup
    \/ ColdStart
    \/ Shutdown
    \/ \E r \in DOMAIN reqs : Arrive(r, {{}}, {{}})
    \/ \E r \in DOMAIN reqs : HandleChat(r, FewSearchWorlds)
    \/ \E r \in DOMAIN reqs : HandleStatus(r, FewStatusWorlds)
    \/ \E r \in DOMAIN reqs : Respond(r)

Spec == InitApi /\ [][Next]_vars

InitRequest == ApiInit({1})

NextRequest ==
    \/ Startup
    \/ ColdStart
    \/ Shutdown
    \/ \E r \in DOMAIN reqs : Arrive(r, RequestHeaders, RequestTopKs)
    \/ \E r \in DOMAIN reqs : HandleChat(r, ApiSearchWorlds)
    \/ \E r \in DOMAIN reqs : HandleStatus(r, StatusWorlds)
    \/ \E r \in DOMAIN reqs : Respond(r)

SpecRequest == InitRequest /\ [][NextRequest]_vars

----------------------------------------------------------------------------
(* Strings.  A Python str is the sequence of its characters, each a         *)
(* one-character string.                                                    *)

\* str.upper() on the letters the statements below are written with
UpperChar(c) ==
    CASE c = "a" -> "A" [] c = "d" -> "D" [] c = "i" -> "I" [] c = "l" -> "L"
      [] c = "m" -> "M" [] c = "s" -> "S" [] c = "t" -> "T"
      [] OTHER -> c

StrUpper(str) == [i \in 1..Len(str) |-> UpperChar(str[i])]

\* str.rstrip(chars) and str.strip() (blanks)
RECURSIVE StrRStrip(_, _)
StrRStrip(str, chars) ==
    IF Len(str) > 0 /\ str[Len(str)] \in chars
    THEN StrRStrip(SubSeq(str, 1, Len(str) - 1), chars)
    ELSE str

RECURSIVE StrLStrip(_, _)
StrLStrip(str, chars) ==
    IF Len(str) > 0 /\ str[1] \in chars THEN StrLStrip(Tail(str), chars) ELSE str

StrStrip(str) == StrLStrip(StrRStrip(str, {" "}), {" "})

\* sub in str
StrIn(sub, str) ==
    \E i \in 1..(Len(str) - Len(sub) + 1) : SubSeq(str, i, i + Len(sub) - 1) = sub

StrEndsWith(str, suffix) ==
    Len(str) >= Len(suffix) /\ SubSeq(str, Len(str) - Len(suffix) + 1, Len(str)) = suffix

\* str(n) for a one-digit n
StrOfDigit(n) ==
    <<CASE n = 0 -> "0" [] n = 1 -> "1" [] n = 2 -> "2" [] n = 3 -> "3" [] n = 4 -> "4"
        [] n = 5 -> "5" [] n = 6 -> "6" [] n = 7 -> "7" [] n = 8 -> "8" [] OTHER -> "9">>

Digits == {"0", "1", "2", "3", "4", "5", "6", "7", "8", "9"}

----------------------------------------------------------------------------
(* MySQLClient.execute_query_with_limit: the statement handed to execute_query *)

LimitWord == <<"L", "I", "M", "I", "T">>

\* query_upper = query.upper().strip();  if "LIMIT" not in query_upper:
\*     query = f"{query.rstrip(';')} LIMIT {limit}"
execute_query_with_limit(query, limit) ==
    LET query_upper == StrStrip(StrUpper(query))
    IN  IF ~StrIn(LimitWord, query_upper)
        THEN StrRStrip(query, {";"}) \o <<" ">> \o LimitWord \o <<" ">> \o StrOfDigit(limit)
        ELSE query

\* the statements drawn:  SELECT <column> [<LIMIT keyword> 3] <tail>
\*   columns: a, limits, d_Limit;  the keyword in three letter cases
SelectPrefix == <<"S", "E", "L", "E", "C", "T", " ">>
SqlColumns == {<<"a">>, <<"l", "i", "m", "i", "t", "s">>, <<"d", "_", "L", "i", "m", "i", "t">>}
SqlLimitClauses ==
    {<<>>,
     <<" ", "L", "I", "M", "I", "T", " ", "3">>,
     <<" ", "l", "i", "m", "i", "t", " ", "3">>,
     <<" ", "L", "i", "m", "i", "t", " ", "3">>}
SqlTails == {<<>>, <<";">>, <<";", ";">>, <<" ">>}
SqlStatements ==
    {SelectPrefix \o c \o l \o t : c \in SqlColumns, l \in SqlLimitClauses, t \in SqlTails}
SqlLimits == {3, 7}

\* SpecLimit: execute_query_with_limit on every statement drawn
InitLimit ==
    /\ fnIn \in [query : SqlStatements, limit : SqlLimits]
    /\ fnOut = <<>>
    /\ fnPc = "drawn"
    /\ ApiIdle /\ HybridIdle /\ CombineIdle

ExecuteWithLimit ==
    /\ fnPc = "drawn"
    /\ fnOut' = execute_query_with_limit(fnIn.query, fnIn.limit)
    /\ fnPc' = "done"
    /\ UNCHANGED <<fnIn, apiVars, hybVars, cmbVars>>

NextLimit == ExecuteWithLimit

SpecLimit == InitLimit /\ [][NextLimit]_vars

----------------------------------------------------------------------------
(* HybridRetriever._search_context on the words of the query and of the     *)
(* cached questions.  A text is the sequence of its words (str.split());    *)
(* the words stand for their lower-cased forms.                             *)

\* `x in y` between two words: the words here are "a", "b", "c" and "ab"
WordIn(x, y) == x = y \/ (y = "ab" /\ x \in {"a", "b"})

Range(seq) == {seq[i] : i \in 1..Len(seq)}

Max(a, b) == IF a >= b THEN a ELSE b
Min(a, b) == IF a <= b THEN a ELSE b

\* sum(1 for word in query_lower.split() if word in question): a word without
\* blanks is in the question iff it is in one of the question's words
KeywordScore(query, question) ==
    Cardinality({i \in 1..Len(query) : \E j \in 1..Len(question) : WordIn(query[i], question[j])})

\* PromptExamples.get_examples(max_examples, query): the examples ordered by
\* keyword score (stable), then cut
get_examples(examples, max_examples, query) ==
    IF Len(query) > 0 /\ Len(examples) > 0
    THEN LET scored == [i \in 1..Len(examples) |->
                          [score |-> KeywordScore(query, examples[i]), ex |-> examples[i]]]
             sorted == StableSortDesc(scored)
         IN  PySlice([i \in 1..Len(sorted) |-> sorted[i].ex], max_examples)
    ELSE PySlice(examples, max_examples)

\* the float the sum  j * 0.7 + e * 0.2 + p * 0.1  evaluates to, in score
\* units.  With all three signals at 1.0 the sum is 0.7 + 0.2 + 0.1, which in
\* binary floating point is 0.9999999999999999: the largest value below 1.0,
\* here ScoreOne - 1.  Every other sum is below 1.0 by far more than a unit.
WeightedSum(j, e, p) == IF j + e + p >= ScoreOne THEN ScoreOne - 1 ELSE j + e + p

\* the similarity of a cached question to the query (hybrid.py:297-320)
Similarity(query, question) ==
    LET query_words == Range(query)
        question_words == Range(question)
        exact_matches == query_words \cap question_words
        partial_matches ==
            Cardinality({pair \in query_words \X question_words :
                            WordIn(pair[1], pair[2]) \/ WordIn(pair[2], pair[1])})
        union == query_words \cup question_words
        n == Max(Cardinality(query_words), 1)
        jaccard == IF union # {}
                   THEN (Cardinality(exact_matches) * 70 * ScoreStep) \div Cardinality(union)
                   ELSE 0
        exact == (Cardinality(exact_matches) * 20 * ScoreStep) \div n
        partial == Min((partial_matches * 10 * ScoreStep) \div n, 10 * ScoreStep)
    IN  WeightedSum(jaccard, exact, partial)

\* _search_context(query, top_k) over a cache holding `examples`:
\*   got: what get_examples returned;  results: the list returned, whose
\*   chunk_id context_<idx> points into got
SearchContextWords(examples, query, top_k) ==
    LET got == get_examples(examples, top_k * 2, query)
        out == _search_context([raises |-> FALSE,
                                sims |-> [i \in 1..Len(got) |-> Similarity(query, got[i])]],
                               top_k)
    IN  [got |-> got, results |-> out.val]

\* most examples a cache holds
MaxExamples == 3

Questions ==
    {<<"a", "b">>, <<"b", "a">>, <<"a", "b", "a">>, <<"ab">>, <<"a">>, <<"a", "c">>}
Queries == {<<"a", "b">>, <<"a">>}
ContextTopKs == {1, 3}

\* SpecContext: _search_context on every cache drawn
InitContext ==
    /\ fnIn \in [examples : SeqsUpTo(Questions, MaxExamples), query : Queries,
                 top_k : ContextTopKs]
    /\ fnOut = <<>>
    /\ fnPc = "drawn"
    /\ ApiIdle /\ HybridIdle /\ CombineIdle

SearchContext ==
    /\ fnPc = "drawn"
    /\ fnOut' = SearchContextWords(fnIn.examples, fnIn.query, fnIn.top_k)
    /\ fnPc' = "done"
    /\ UNCHANGED <<fnIn, apiVars, hybVars, cmbVars>>

NextContext == SearchContext

SpecContext == InitContext /\ [][NextContext]_vars

----------------------------------------------------------------------------
(* indexers/common.py: chunk_text.  A text is given by its paragraphs and a *)
(* paragraph by the lengths of its sentences; the strings the function      *)
(* builds are sequences of "x" (a character that is not blank) and "w" (a   *)
(* blank or a newline), so that joins, tails and strip() are computed on    *)
(* characters.                                                              *)

\* chars_per_token
CharsPerToken == 4
\* len(chunk.strip()) > 50
MinChunkChars == 50

\* a run of n characters without blanks
Solid(n) == [i \in 1..n |-> "x"]

\* sep.join(parts), parts being records with a text
RECURSIVE JoinParts(_, _)
JoinParts(parts, sep) ==
    IF Len(parts) = 0 THEN <<>>
    ELSE IF Len(parts) = 1 THEN parts[1].text
    ELSE parts[1].text \o sep \o JoinParts(Tail(parts), sep)

Blank == <<"w">>
BlankLine == <<"w", "w">>

\* the paragraph as written: its sentences, one blank between them
ParaText(para) == JoinParts([i \in 1..Len(para) |-> [text |-> Solid(para[i])]], Blank)

\* an element of current_chunk: its text, and whether it is a sentence that is
\* longer than max_chars by itself
Part(text, long) == [text |-> text, long |-> long]

\* the chunk appended to chunks
Chunk(current_chunk, sep) ==
    [text |-> JoinParts(current_chunk, sep),
     parts |-> Len(current_chunk),
     long |-> \E i \in 1..Len(current_chunk) : current_chunk[i].long]

\* prev_chunk[-overlap_chars:] if len(prev_chunk) > overlap_chars else prev_chunk
OverlapText(prev_chunk, overlap_chars) ==
    IF Len(prev_chunk) > overlap_chars
    THEN SubSeq(prev_chunk, Len(prev_chunk) - overlap_chars + 1, Len(prev_chunk))
    ELSE prev_chunk

\* the new current_chunk and current_length after a flush (lines 77-85, 89-96)
Seeded(chunks, part, sep, overlap_chars) ==
    IF overlap_chars > 0 /\ Len(chunks) > 0
    THEN LET overlap_text == OverlapText(chunks[Len(chunks)].text, overlap_chars)
             current_chunk == IF Len(overlap_text) > 0
                              THEN <<Part(overlap_text, FALSE), part>>
                              ELSE <<part>>
         IN  [cur |-> current_chunk, len |-> Len(JoinParts(current_chunk, sep))]
    ELSE [cur |-> <<part>>, len |-> Len(part.text)]

Flushed(st, sep) ==
    IF Len(st.cur) > 0 THEN Append(st.chunks, Chunk(st.cur, sep)) ELSE st.chunks

\* for sentence in sentences (lines 61-85), from the i-th sentence on
RECURSIVE SentenceLoop(_, _, _, _, _)
SentenceLoop(st, para, i, max_chars, overlap_chars) ==
    IF i > Len(para) THEN st
    ELSE LET sent_length == para[i]
             sentence == Part(Solid(sent_length), sent_length > max_chars)
             next ==
                IF st.len + sent_length <= max_chars
                THEN [chunks |-> st.chunks, cur |-> Append(st.cur, sentence),
                      len |-> st.len + sent_length + 1]
                ELSE LET chunks == Flushed(st, Blank)
                         seed == Seeded(chunks, sentence, Blank, overlap_chars)
                     IN  [chunks |-> chunks, cur |-> seed.cur, len |-> seed.len]
         IN  SentenceLoop(next, para, i + 1, max_chars, overlap_chars)

\* for para in paragraphs (lines 38-96), from the i-th paragraph on
RECURSIVE ParagraphLoop(_, _, _, _, _)
ParagraphLoop(st, paragraphs, i, max_chars, overlap_chars) ==
    IF i > Len(paragraphs) THEN st
    ELSE LET para == ParaText(paragraphs[i])
             para_length == Len(para)
             next ==
                IF st.len + para_length <= max_chars
                THEN [chunks |-> st.chunks, cur |-> Append(st.cur, Part(para, FALSE)),
                      len |-> st.len + para_length + 2]
                ELSE LET chunks == Flushed(st, BlankLine)
                     IN  IF para_length > max_chars
                         THEN SentenceLoop([chunks |-> chunks, cur |-> <<>>, len |-> 0],
                                           paragraphs[i], 1, max_chars, overlap_chars)
                         ELSE LET seed == Seeded(chunks, Part(para, FALSE), BlankLine,
                                                 overlap_chars)
                              IN  [chunks |-> chunks, cur |-> seed.cur, len |-> seed.len]
         IN  ParagraphLoop(next, paragraphs, i + 1, max_chars, overlap_chars)

\* str.strip() on a string of "x" and "w"
BlankStrip(str) == StrLStrip(StrRStrip(str, {"w"}), {"w"})

SelectChunks(chunks) == SelectSeq(chunks, LAMBDA c : Len(BlankStrip(c.text)) > MinChunkChars)

chunk_text(paragraphs, max_tokens, overlap) ==
    IF Len(paragraphs) = 0 THEN <<>>
    ELSE LET max_chars == max_tokens * CharsPerToken
             overlap_chars == overlap * CharsPerToken
             st == ParagraphLoop([chunks |-> <<>>, cur |-> <<>>, len |-> 0],
                                 paragraphs, 1, max_chars, overlap_chars)
         IN  SelectChunks(Flushed(st, BlankLine))

\* most paragraphs of a text
MaxParas == 3

\* paragraphs, by the lengths of their sentences
Paragraphs == {<<30>>, <<55>>, <<25, 30>>, <<30, 30, 30>>, <<70>>}
ChunkMaxTokens == {15}
ChunkOverlaps == {0, 5}

\* SpecChunk: chunk_text on every text drawn
InitChunk ==
    /\ fnIn \in [paragraphs : SeqsUpTo(Paragraphs, MaxParas), max_tokens : ChunkMaxTokens,
                 overlap : ChunkOverlaps]
    /\ fnOut = <<>>
    /\ fnPc = "drawn"
    /\ ApiIdle /\ HybridIdle /\ CombineIdle

ChunkText ==
    /\ fnPc = "drawn"
    /\ fnOut' = chunk_text(fnIn.paragraphs, fnIn.max_tokens, fnIn.overlap)
    /\ fnPc' = "done"
    /\ UNCHANGED <<fnIn, apiVars, hybVars, cmbVars>>

NextChunk == ChunkText

SpecChunk == InitChunk /\ [][NextChunk]_vars

----------------------------------------------------------------------------
(* Q&A normalisation: PromptExamples._clean_answer (utils/prompt_examples.py) *)
(* and convert_structured_to_natural_language                               *)
(* (scripts/process_qa_for_prompt_engineering.py).  A string answer is the  *)
(* sequence of its characters.  A mapping answer gives each key it may hold *)
(* as a set of at most one value.  A returned text is the sequence of its   *)
(* pieces: the fixed parts of the f-string as they are written, and the     *)
(* characters of every formatted value.                                     *)

UpperLetters == <<"A", "B", "C", "D", "E", "F", "G", "H", "I", "J", "K", "L", "M", "N", "O", "P", "Q", "R", "S", "T", "U", "V", "W", "X", "Y", "Z">>
LowerLetters == <<"a", "b", "c", "d", "e", "f", "g", "h", "i", "j", "k", "l", "m", "n", "o", "p", "q", "r", "s", "t", "u", "v", "w", "x", "y", "z">>

\* str.lower()
LowerChar(c) ==
    IF \E i \in 1..Len(UpperLetters) : UpperLetters[i] = c
    THEN LowerLetters[CHOOSE i \in 1..Len(UpperLetters) : UpperLetters[i] = c]
    ELSE c

StrLower(str) == [i \in 1..Len(str) |-> LowerChar(str[i])]

StrStartsWith(str, prefix) ==
    Len(str) >= Len(prefix) /\ SubSeq(str, 1, Len(prefix)) = prefix

\* str(n) for a natural number n
RECURSIVE DecStr(_)
DecStr(n) == IF n < 10 THEN StrOfDigit(n) ELSE DecStr(n \div 10) \o StrOfDigit(n % 10)

NotComputable == <<"n", "o", "t", " ", "c", "o", "m", "p", "u", "t", "a", "b", "l", "e">>
PartiallyComputable == <<"p", "a", "r", "t", "i", "a", "l", "l", "y", " ", "c", "o", "m", "p", "u", "t", "a", "b", "l", "e">>
ComputedInFile == <<"c", "o", "m", "p", "u", "t", "e", "d", " ", "i", "n", " ", "f", "i", "l", "e", ".">>

\* the keys of a co-occurrence answer, in the order of the file
AnswerKeys ==
    <<"n",
      "a_responder_and_immune",
      "b_responder_no_immune",
      "c_nonresponder_immune",
      "d_nonresponder_no_immune",
      "odds_ratio">>

\* len(key)
KeyLen(key) ==
    CASE key = "n" -> 1
      [] key = "a_responder_and_immune" -> 22
      [] key = "b_responder_no_immune" -> 21
      [] key = "c_nonresponder_immune" -> 21
      [] key = "d_nonresponder_no_immune" -> 24
      [] key = "odds_ratio" -> 10

\* the values of a mapping: an int, a float (in hundredths), NaN, null
IntVal(n) == [kind |-> "int", v |-> n]
FloatVal(hundredths) == [kind |-> "float", v |-> hundredths]
NanVal == [kind |-> "nan", v |-> 0]
NullVal == [kind |-> "null", v |-> 0]

\* answer.get(key, 0), answer.get(key)
GetOr0(answer, key) == Get(answer[key], IntVal(0))
GetOrNone(answer, key) == Get(answer[key], NullVal)

\* key in answer, len(answer)
HasKey(answer, key) == answer[key] # {}
DictLen(answer) == Cardinality({i \in 1..Len(AnswerKeys) : HasKey(answer, AnswerKeys[i])})

\* f"{value}" of a count
FormatValue(val) ==
    CASE val.kind = "int" -> DecStr(val.v)
      [] val.kind = "nan" -> <<"n", "a", "n">>
      [] val.kind = "null" -> <<"N", "o", "n", "e">>
      [] OTHER -> DecStr(val.v \div 100) \o <<".">> \o DecStr((val.v % 100) \div 10)
                    \o (IF val.v % 10 = 0 THEN <<>> ELSE DecStr(val.v % 10))

\* len(str(answer)):  {'key': value, ...}
RECURSIVE ItemsReprLen(_, _)
ItemsReprLen(answer, i) ==
    IF i > Len(AnswerKeys) THEN 0
    ELSE (IF HasKey(answer, AnswerKeys[i])
          THEN KeyLen(AnswerKeys[i]) + 4 + Len(FormatValue(GetOrNone(answer, AnswerKeys[i]))) + 2
          ELSE 0) + ItemsReprLen(answer, i + 1)

ReprLen(answer) == IF DictLen(answer) = 0 THEN 2 ELSE ItemsReprLen(answer, 1)

\* the outcome of a call: the value returned, None, or the exception raised
Returned(text) == [exc |-> "none", val |-> {text}]
ReturnedNone == [exc |-> "none", val |-> {}]
RaisedError(exc) == [exc |-> exc, val |-> {}]

\* json.dumps(answer, indent=2)
JsonDumps(answer) == <<[json |-> answer]>>

\* the sentence both implementations write for a co-occurrence answer
CoOccurrenceText(n, a, b, c, d) ==
    <<"Analysis of ">> \o FormatValue(n) \o <<" patients shows: ">>
      \o FormatValue(a) \o <<" responders with immune-related AEs, ">>
      \o FormatValue(b) \o <<" responders without immune AEs, ">>
      \o FormatValue(c) \o <<" non-responders with immune AEs, ">>
      \o <<"and ">> \o FormatValue(d) \o <<" non-responders without immune AEs.">>

\* " ".join(natural_parts)
RECURSIVE JoinTexts(_)
JoinTexts(natural_parts) ==
    IF Len(natural_parts) = 0 THEN <<>>
    ELSE IF Len(natural_parts) = 1 THEN natural_parts[1]
    ELSE natural_parts[1] \o <<" ">> \o JoinTexts(Tail(natural_parts))

PartsOutcome(natural_parts) ==
    IF Len(natural_parts) > 0 THEN Returned(JoinTexts(natural_parts)) ELSE ReturnedNone

IsCoOccurrence(answer) == HasKey(answer, "n") /\ HasKey(answer, "a_responder_and_immune")

CoOccurrencePart(answer) ==
    CoOccurrenceText(GetOr0(answer, "n"), GetOr0(answer, "a_responder_and_immune"),
                     GetOr0(answer, "b_responder_no_immune"),
                     GetOr0(answer, "c_nonresponder_immune"),
                     GetOr0(answer, "d_nonresponder_no_immune"))

\* most characters of str(answer) of a mapping the cache drops
MinReprLen == 50

\* PromptExamples._clean_answer(question, answer)
_clean_answer(answer) ==
    IF answer.kind = "str"
    THEN IF StrStartsWith(StrLower(answer.text), NotComputable) THEN ReturnedNone
         ELSE IF StrLower(answer.text) = ComputedInFile THEN ReturnedNone
         ELSE Returned(answer.text)
    ELSE IF answer.kind = "dict"
    THEN IF DictLen(answer.items) = 0 THEN ReturnedNone
         ELSE IF IsCoOccurrence(answer.items)
         THEN PartsOutcome(IF GetOr0(answer.items, "n").v > 0
                           THEN <<CoOccurrencePart(answer.items)>> ELSE <<>>)
         ELSE IF ReprLen(answer.items) > MinReprLen
         THEN Returned(JsonDumps(answer.items))
         ELSE ReturnedNone
    ELSE ReturnedNone

\* is_nan(value)
is_nan(val) == val.kind = "nan"

\* f"{or_val:.2f}": a float with two decimals; None has no such format
FormatTwoDecimals(val) ==
    IF val.kind = "null" THEN RaisedError("TypeError")
    ELSE IF val.kind = "nan" THEN Returned(<<"n", "a", "n">>)
    ELSE LET hundredths == IF val.kind = "int" THEN val.v * 100 ELSE val.v
         IN  Returned(DecStr(hundredths \div 100) \o <<".">>
                        \o DecStr((hundredths % 100) \div 10) \o DecStr(hundredths % 10))

\* if not is_nan(answer.get("odds_ratio")): ... f"The odds ratio is {or_val:.2f}."
OddsRatioPart(answer) ==
    IF is_nan(GetOrNone(answer, "odds_ratio")) THEN Returned(<<>>)
    ELSE FormatTwoDecimals(GetOrNone(answer, "odds_ratio"))

\* convert_structured_to_natural_language(question, answer)
convert_structured_to_natural_language(answer) ==
    IF answer.kind = "str"
    THEN IF StrStartsWith(StrLower(answer.text), NotComputable) THEN ReturnedNone
         ELSE IF StrStartsWith(StrLower(answer.text), PartiallyComputable)
         THEN Returned(answer.text)
         ELSE IF StrLower(answer.text) = ComputedInFile THEN ReturnedNone
         ELSE Returned(answer.text)
    ELSE IF answer.kind = "dict"
    THEN IF DictLen(answer.items) = 0 THEN ReturnedNone
         ELSE IF IsCoOccurrence(answer.items)
         THEN IF GetOr0(answer.items, "n").v > 0
              THEN LET odds == OddsRatioPart(answer.items)
                   IN  IF odds.exc # "none" THEN odds
                       ELSE IF odds.val = {<<>>}
                       THEN PartsOutcome(<<CoOccurrencePart(answer.items)>>)
                       ELSE PartsOutcome(<<CoOccurrencePart(answer.items),
                                           <<"The odds ratio is ">> \o Get(odds.val, <<>>)
                                             \o <<".">> >>)
              ELSE ReturnedNone
         ELSE Returned(JsonDumps(answer.items))
    ELSE ReturnedNone

\* the answers drawn
StrAnswer(text) == [kind |-> "str", text |-> text, items |-> <<>>]
DictAnswer(items) == [kind |-> "dict", text |-> <<>>, items |-> items]
OtherAnswer == [kind |-> "other", text |-> <<>>, items |-> <<>>]

StringAnswers ==
    {StrAnswer(t) : t \in
        {<<>>,
         <<"N", "o", "t", " ", "c", "o", "m", "p", "u", "t", "a", "b", "l", "e">>,
         <<"N", "O", "T", " ", "C", "O", "M", "P", "U", "T", "A", "B", "L", "E", ":", " ", "x">>,
         <<"n", "o", "t", " ", "c", "o", "m", "p", "u", "t", "a", "b", "l", "e", ".">>,
         <<"n", "o", "t", " ", "c", "o", "m", "p", "u", "t", "e", "d">>,
         <<"C", "o", "m", "p", "u", "t", "e", "d", " ", "i", "n", " ", "f", "i", "l", "e", ".">>,
         <<"C", "O", "M", "P", "U", "T", "E", "D", " ", "I", "N", " ", "F", "I", "L", "E", ".">>,
         <<"C", "o", "m", "p", "u", "t", "e", "d", " ", "i", "n", " ", "f", "i", "l", "e">>,
         <<"P", "a", "r", "t", "i", "a", "l", "l", "y", " ", "c", "o", "m", "p", "u", "t", "a", "b", "l", "e">>,
         <<"Y", "e", "s", ".">>}}

Counts == {{}, {IntVal(3)}}
DictAnswers ==
    {DictAnswer(items) : items \in
        [n : {{}, {IntVal(0)}, {IntVal(12)}},
         a_responder_and_immune : Counts,
         b_responder_no_immune : {{}, {IntVal(4)}},
         c_nonresponder_immune : {{}, {IntVal(2)}},
         d_nonresponder_no_immune : Counts,
         odds_ratio : {{}, {FloatVal(150)}, {NanVal}, {NullVal}}]}

Answers == StringAnswers \cup DictAnswers \cup {OtherAnswer}

\* SpecClean: both implementations on every answer drawn
InitClean ==
    /\ fnIn \in Answers
    /\ fnOut = [clean |-> <<>>, convert |-> <<>>]
    /\ fnPc = "drawn"
    /\ ApiIdle /\ HybridIdle /\ CombineIdle

CleanAnswer ==
    /\ fnPc = "drawn"
    /\ fnOut.clean = <<>>
    /\ fnOut' = [fnOut EXCEPT !.clean = <<_clean_answer(fnIn)>>]
    /\ fnPc' = IF fnOut.convert = <<>> THEN "drawn" ELSE "done"
    /\ UNCHANGED <<fnIn, apiVars, hybVars, cmbVars>>

ConvertStructured ==
    /\ fnPc = "drawn"
    /\ fnOut.convert = <<>>
    /\ fnOut' = [fnOut EXCEPT !.convert = <<convert_structured_to_natural_language(fnIn)>>]
    /\ fnPc' = IF fnOut.clean = <<>> THEN "drawn" ELSE "done"
    /\ UNCHANGED <<fnIn, apiVars, hybVars, cmbVars>>

NextClean == CleanAnswer \/ ConvertStructured

SpecClean == InitClean /\ [][NextClean]_vars

----------------------------------------------------------------------------
(* SQLGenerator._generate_sql_simple (utils/sql_generator.py): the keyword   *)
(* fallback.  A question is the sequence of its characters.                 *)

\* self.TABLE_MAPPINGS.items(): the keys in the order they are first written,
\* each with the value written last for it ("response" is written twice)
TableMappings ==
    <<[keyword |-> <<"p", "a", "t", "i", "e", "n", "t">>, table |-> "subjinfo"],
      [keyword |-> <<"p", "a", "t", "i", "e", "n", "t", "s">>, table |-> "subjinfo"],
      [keyword |-> <<"s", "u", "b", "j", "e", "c", "t">>, table |-> "subjinfo"],
      [keyword |-> <<"s", "u", "b", "j", "e", "c", "t", "s">>, table |-> "subjinfo"],
      [keyword |-> <<"d", "e", "m", "o", "g", "r", "a", "p", "h", "i", "c">>, table |-> "subjinfo"],
      [keyword |-> <<"d", "e", "m", "o", "g", "r", "a", "p", "h", "i", "c", "s">>, table |-> "subjinfo"],
      [keyword |-> <<"b", "a", "s", "e", "l", "i", "n", "e">>, table |-> "subjinfo"],
      [keyword |-> <<"e", "v", "e", "n", "t">>, table |-> "events"],
      [keyword |-> <<"e", "v", "e", "n", "t", "s">>, table |-> "events"],
      [keyword |-> <<"a", "d", "v", "e", "r", "s", "e">>, table |-> "events"],
      [keyword |-> <<"a", "d", "v", "e", "r", "s", "e", "_", "e", "v", "e", "n", "t">>, table |-> "events"],
      [keyword |-> <<"a", "d", "v", "e", "r", "s", "e", "_", "e", "v", "e", "n", "t", "s">>, table |-> "events"],
      [keyword |-> <<"a", "e">>, table |-> "events"],
      [keyword |-> <<"s", "a", "f", "e", "t", "y">>, table |-> "events"],
      [keyword |-> <<"l", "e", "s", "i", "o", "n">>, table |-> "lesions"],
      [keyword |-> <<"l", "e", "s", "i", "o", "n", "s">>, table |-> "lesions"],
      [keyword |-> <<"t", "u", "m", "o", "r">>, table |-> "lesions"],
      [keyword |-> <<"t", "u", "m", "o", "r", "s">>, table |-> "lesions"],
      [keyword |-> <<"r", "e", "s", "p", "o", "n", "s", "e">>, table |-> "bor"],
      [keyword |-> <<"v", "i", "s", "i", "t">>, table |-> "visit"],
      [keyword |-> <<"v", "i", "s", "i", "t", "s">>, table |-> "visit"],
      [keyword |-> <<"s", "c", "h", "e", "d", "u", "l", "e">>, table |-> "visit"],
      [keyword |-> <<"v", "i", "t", "a", "l">>, table |-> "vitals"],
      [keyword |-> <<"v", "i", "t", "a", "l", "s">>, table |-> "vitals"],
      [keyword |-> <<"v", "i", "t", "a", "l", "_", "s", "i", "g", "n">>, table |-> "vitals"],
      [keyword |-> <<"v", "i", "t", "a", "l", "_", "s", "i", "g", "n", "s">>, table |-> "vitals"],
      [keyword |-> <<"m", "e", "d", "i", "c", "a", "t", "i", "o", "n">>, table |-> "cmtpy"],
      [keyword |-> <<"m", "e", "d", "i", "c", "a", "t", "i", "o", "n", "s">>, table |-> "cmtpy"],
      [keyword |-> <<"c", "o", "n", "c", "o", "m", "i", "t", "a", "n", "t">>, table |-> "cmtpy"],
      [keyword |-> <<"c", "m">>, table |-> "cmtpy"],
      [keyword |-> <<"t", "r", "e", "a", "t", "m", "e", "n", "t">>, table |-> "sdytrt"],
      [keyword |-> <<"t", "r", "e", "a", "t", "m", "e", "n", "t", "s">>, table |-> "sdytrt"],
      [keyword |-> <<"d", "o", "s", "e">>, table |-> "sdytrt"],
      [keyword |-> <<"d", "o", "s", "i", "n", "g">>, table |-> "sdytrt"],
      [keyword |-> <<"s", "t", "u", "d", "y", "_", "t", "r", "e", "a", "t", "m", "e", "n", "t">>, table |-> "sdytrt"],
      [keyword |-> <<"t", "i", "m", "e", "_", "t", "o", "_", "e", "v", "e", "n", "t">>, table |-> "ttevent"],
      [keyword |-> <<"s", "u", "r", "v", "i", "v", "a", "l">>, table |-> "ttevent"],
      [keyword |-> <<"p", "r", "o", "g", "r", "e", "s", "s", "i", "o", "n">>, table |-> "ttevent"],
      [keyword |-> <<"t", "t", "e">>, table |-> "ttevent"],
      [keyword |-> <<"d", "i", "s", "p", "o", "s", "i", "t", "i", "o", "n">>, table |-> "disposit"],
      [keyword |-> <<"c", "o", "m", "p", "l", "e", "t", "i", "o", "n">>, table |-> "disposit"],
      [keyword |-> <<"s", "t", "a", "t", "u", "s">>, table |-> "disposit"],
      [keyword |-> <<"b", "o", "r">>, table |-> "bor"],
      [keyword |-> <<"b", "e", "s", "t", "_", "r", "e", "s", "p", "o", "n", "s", "e">>, table |-> "bor"],
      [keyword |-> <<"d", "i", "a", "g", "n", "o", "s", "i", "s">>, table |-> "diag"],
      [keyword |-> <<"d", "i", "a", "g", "n", "o", "s", "t", "i", "c">>, table |-> "diag"],
      [keyword |-> <<"e", "x", "p", "o", "s", "u", "r", "e">>, table |-> "exsum"],
      [keyword |-> <<"e", "x", "p", "o", "s", "u", "r", "e", "_", "s", "u", "m", "m", "a", "r", "y">>, table |-> "exsum"],
      [keyword |-> <<"h", "i", "s", "t", "o", "r", "y">>, table |-> "history"],
      [keyword |-> <<"m", "e", "d", "i", "c", "a", "l", "_", "h", "i", "s", "t", "o", "r", "y">>, table |-> "history"],
      [keyword |-> <<"p", "r", "i", "o", "r">>, table |-> "history"],
      [keyword |-> <<"p", "r", "o", "g", "r", "e", "s", "s", "i", "v", "e", "_", "d", "i", "s", "e", "a", "s", "e">>, table |-> "pdsumm"],
      [keyword |-> <<"p", "d">>, table |-> "pdsumm"]>>

DefaultTable == "events"

\* for keyword, table in self.TABLE_MAPPINGS.items(): if keyword in query: return table
RECURSIVE ExtractTableFrom(_, _)
ExtractTableFrom(query, i) ==
    IF i > Len(TableMappings) THEN DefaultTable
    ELSE IF StrIn(TableMappings[i].keyword, query) THEN TableMappings[i].table
    ELSE ExtractTableFrom(query, i + 1)

_extract_table(query) == ExtractTableFrom(query, 1)

\* the module never imports re: the first statement of _extract_conditions,
\* re.search(...), raises NameError for every query
_extract_conditions(query) == RaisedError("NameError")

\* _generate_sql_simple(query, limit): the table is extracted, then the
\* conditions; an exception leaves no statement
_generate_sql_simple(query, limit) ==
    LET query_lower == StrLower(query)
        table == _extract_table(query_lower)
        conditions == _extract_conditions(query_lower)
    IN  [exc |-> conditions.exc, val |-> conditions.val, table |-> table]

\* the questions drawn: one or two of these phrases, a blank between them
QuestionPhrases ==
    {<<"h", "o", "w", " ", "m", "a", "n", "y">>,
     <<"p", "a", "t", "i", "e", "n", "t", "s">>,
     <<"a", "r", "e", " ", "m", "a", "l", "e">>,
     <<"f", "e", "m", "a", "l", "e">>,
     <<"l", "i", "s", "t">>,
     <<"a", "d", "v", "e", "r", "s", "e", " ", "e", "v", "e", "n", "t", "s">>,
     <<"f", "o", "r", " ", "s", "u", "b", "j", "e", "c", "t", " ", "1", "0", "0">>,
     <<"t", "u", "m", "o", "r", " ", "r", "e", "s", "p", "o", "n", "s", "e">>,
     <<"a", "g", "e">>}

MaleQuestion == <<"h", "o", "w", " ", "m", "a", "n", "y", " ", "p", "a", "t", "i", "e", "n", "t", "s", " ", "a", "r", "e", " ", "m", "a", "l", "e">>
EventsQuestion == <<"l", "i", "s", "t", " ", "a", "d", "v", "e", "r", "s", "e", " ", "e", "v", "e", "n", "t", "s", " ", "f", "o", "r", " ", "s", "u", "b", "j", "e", "c", "t", " ", "1", "0", "0">>

SqlQuestions ==
    {MaleQuestion, EventsQuestion} \cup QuestionPhrases
      \cup {p \o <<" ">> \o q : p \in QuestionPhrases, q \in QuestionPhrases}

\* SpecSimpleSql: _generate_sql_simple on every question drawn
InitSimpleSql ==
    /\ fnIn \in SqlQuestions
    /\ fnOut = <<>>
    /\ fnPc = "drawn"
    /\ ApiIdle /\ HybridIdle /\ CombineIdle

GenerateSqlSimple ==
    /\ fnPc = "drawn"
    /\ fnOut' = _generate_sql_simple(fnIn, MaxAggregationRows)
    /\ fnPc' = "done"
    /\ UNCHANGED <<fnIn, apiVars, hybVars, cmbVars>>

NextSimpleSql == GenerateSqlSimple

SpecSimpleSql == InitSimpleSql /\ [][NextSimpleSql]_vars

----------------------------------------------------------------------------
(* scripts/migrate_sas_to_mysql_optimized.py: migrate_sas_files and          *)
(* create_table_with_schema.  The database is, per table name, the set of   *)
(* at most one table, a table being its column set and its committed row    *)
(* count; txn holds the rows the connection has inserted and not committed. *)
(* MySQL commits the open transaction at every DROP, CREATE TABLE and       *)
(* CREATE INDEX, and a failed INSERT statement inserts nothing.             *)

\* batch_size
BatchSize == 1000

\* col.replace(" ", "_").replace("-", "_").replace(".", "_").lower()
clean_column_name(col) ==
    StrLower([i \in 1..Len(col) |-> IF col[i] \in {" ", "-", "."} THEN "_" ELSE col[i]])

priority_order ==
    <<<<"s", "u", "b", "j", "i", "n", "f", "o">>,
      <<"d", "i", "s", "p", "o", "s", "i", "t">>,
      <<"b", "o", "r">>,
      <<"d", "i", "a", "g">>,
      <<"e", "x", "s", "u", "m">>,
      <<"v", "i", "s", "i", "t">>,
      <<"e", "v", "e", "n", "t", "s">>,
      <<"l", "e", "s", "i", "o", "n", "s">>,
      <<"v", "i", "t", "a", "l", "s">>,
      <<"c", "m", "t", "p", "y">>,
      <<"s", "d", "y", "t", "r", "t">>,
      <<"t", "t", "e", "v", "e", "n", "t">>,
      <<"s", "y", "s", "t">>,
      <<"h", "i", "s", "t", "o", "r", "y">>,
      <<"p", "d", "s", "u", "m", "m">>,
      <<"c", "m", "t", "p", "y", "a", "t", "c">>>>

\* get_priority(filename), on the lower-cased stem
get_priority(stem) ==
    IF \E i \in 1..Len(priority_order) : priority_order[i] = stem
    THEN (CHOOSE i \in 1..Len(priority_order) : priority_order[i] = stem) - 1
    ELSE Len(priority_order)

\* sorted(sas_files, key=get_priority): stable
RECURSIVE InsertByPriority(_, _)
InsertByPriority(sorted, f) ==
    IF sorted = <<>> THEN <<f>>
    ELSE IF get_priority(StrLower(Head(sorted).stem)) <= get_priority(StrLower(f.stem))
    THEN <<Head(sorted)>> \o InsertByPriority(Tail(sorted), f)
    ELSE <<f>> \o sorted

RECURSIVE SortByPriority(_)
SortByPriority(files) ==
    IF files = <<>> THEN <<>>
    ELSE InsertByPriority(SortByPriority(SubSeq(files, 1, Len(files) - 1)), files[Len(files)])

\* the stems of the files drawn, and the tables they are migrated to
Stems == {<<"s", "u", "b", "j", "i", "n", "f", "o">>, <<"e", "v", "e", "n", "t", "s">>, <<"E", "v", "e", "n", "t", "s">>}
TableNames == {StrLower(s) : s \in Stems}

NoTxn == [t \in TableNames |-> 0]

\* an implicit or explicit commit, and conn.rollback()
Commit(s) ==
    [db |-> [t \in TableNames |->
                {[columns |-> tb.columns, rows |-> tb.rows + s.txn[t]] : tb \in s.db[t]}],
     txn |-> NoTxn]
Rollback(s) == [db |-> s.db, txn |-> NoTxn]

\* mutation of DropTable: the table is kept (if_exists other than "replace")
DropTable_kept(s, table_name) == Commit(s)

\* DROP TABLE IF EXISTS
DropTable(s, table_name) ==
    LET c == Commit(s) IN [c EXCEPT !.db[table_name] = {}]

\* the cleaned column names; two columns with one cleaned name make the CREATE fail
CleanColumns(f) == {clean_column_name(col) : col \in f.columns}
DuplicateColumns(f) == Cardinality(CleanColumns(f)) < Cardinality(f.columns)

\* CREATE TABLE IF NOT EXISTS
CreateTable(s, table_name, f) ==
    LET c == Commit(s)
    IN  IF c.db[table_name] = {}
        THEN [c EXCEPT !.db[table_name] = {[columns |-> CleanColumns(f), rows |-> 0]}]
        ELSE c

\* rows of values[i : i + batch_size] for the batch-th batch
BatchRows(f, batch) ==
    IF batch * BatchSize <= f.nrows THEN BatchSize ELSE f.nrows - (batch - 1) * BatchSize

NumBatches(f) == (f.nrows + BatchSize - 1) \div BatchSize

\* for i in range(0, len(values), batch_size): cursor.executemany(insert_sql, batch)
\* up to the batch that holds the row that is rejected (bad_row, 0 if none), by
\* the server with a mysql Error or by the connector with another exception
RECURSIVE InsertBatches(_, _, _, _)
InsertBatches(s, table_name, f, batch) ==
    IF batch > NumBatches(f) THEN [exc |-> "none", s |-> s]
    ELSE IF f.bad_row > (batch - 1) * BatchSize /\ f.bad_row <= batch * BatchSize
    THEN [exc |-> f.bad_exc, s |-> s]
    ELSE InsertBatches([s EXCEPT !.txn[table_name] = @ + BatchRows(f, batch)],
                       table_name, f, batch + 1)

\* create_table_with_schema(conn, table_name, df, table_comment, if_exists="replace")
create_table_with_schema(s, table_name, f) ==
    LET dropped == DropTable(s, table_name)
    IN  IF DuplicateColumns(f) THEN [exc |-> "Error", s |-> Rollback(dropped)]
        ELSE LET created == Commit(CreateTable(dropped, table_name, f))
             IN  IF f.bad_value THEN [exc |-> "ValueError", s |-> created]
                 ELSE LET inserted == InsertBatches(created, table_name, f, 1)
                      IN  IF inserted.exc = "none"
                          THEN [exc |-> "none", s |-> Commit(inserted.s)]
                          ELSE IF inserted.exc = "Error"
                          THEN [exc |-> inserted.exc, s |-> Rollback(inserted.s)]
                          ELSE inserted

\* the body of  for sas_file in sas_files_sorted
MigrateFile(s, f) ==
    IF ~f.readable THEN s
    ELSE IF f.nrows = 0 \/ f.columns = {} THEN s
    ELSE create_table_with_schema(s, StrLower(f.stem), f).s

\* most files of an input directory
MaxFiles == 2

Subjid == <<"s", "u", "b", "j", "i", "d">>
GoodColumns == {<<"S", "U", "B", "J", "I", "D">>, <<"S", "e", "x">>}
ClashingColumns == {Subjid, <<"a", " ", "b">>, <<"a", "_", "b">>}

\* what a file holds: a few rows, several batches, nothing, something unreadable,
\* two columns with one cleaned name, a rejected row in the first or in the
\* second batch, a cell pd.isna cannot test, a row the connector cannot send
FileContents ==
    {[columns |-> GoodColumns, nrows |-> 3, readable |-> TRUE, bad_row |-> 0, bad_value |-> FALSE, bad_exc |-> "Error"],
     [columns |-> {Subjid}, nrows |-> 2500, readable |-> TRUE, bad_row |-> 0, bad_value |-> FALSE, bad_exc |-> "Error"],
     [columns |-> GoodColumns, nrows |-> 0, readable |-> TRUE, bad_row |-> 0, bad_value |-> FALSE, bad_exc |-> "Error"],
     [columns |-> {}, nrows |-> 0, readable |-> FALSE, bad_row |-> 0, bad_value |-> FALSE, bad_exc |-> "Error"],
     [columns |-> ClashingColumns, nrows |-> 3, readable |-> TRUE, bad_row |-> 0, bad_value |-> FALSE, bad_exc |-> "Error"],
     [columns |-> GoodColumns, nrows |-> 3, readable |-> TRUE, bad_row |-> 2, bad_value |-> FALSE, bad_exc |-> "Error"],
     [columns |-> {Subjid}, nrows |-> 2500, readable |-> TRUE, bad_row |-> 1500, bad_value |-> FALSE, bad_exc |-> "Error"],
     [columns |-> GoodColumns, nrows |-> 3, readable |-> TRUE, bad_row |-> 0, bad_value |-> TRUE, bad_exc |-> "Error"],
     [columns |-> {Subjid}, nrows |-> 2500, readable |-> TRUE, bad_row |-> 1500, bad_value |-> FALSE, bad_exc |-> "TypeError"]}

SasFiles ==
    {[stem |-> stem, columns |-> c.columns, nrows |-> c.nrows, readable |-> c.readable,
      bad_row |-> c.bad_row, bad_value |-> c.bad_value, bad_exc |-> c.bad_exc] : stem \in Stems, c \in FileContents}

\* input_path.glob("*.sas7bdat"): files of different names
InputDirs ==
    {dir \in SeqsUpTo(SasFiles, MaxFiles) :
        \A i \in 1..Len(dir) : \A j \in 1..Len(dir) : i # j => dir[i].stem # dir[j].stem}

\* the database before the first run: empty, or every table there from before
OldTable == [columns |-> {<<"o", "l", "d">>}, rows |-> 7]
InitialDbs == {[t \in TableNames |-> {}], [t \in TableNames |-> {OldTable}]}

\* SpecMigrate: the migration run twice on one input directory
NumRuns == 2

InitMigrate ==
    /\ fnIn \in [dir : InputDirs, db : InitialDbs]
    /\ fnOut = [s |-> [db |-> fnIn.db, txn |-> NoTxn], queue |-> <<>>, after |-> <<>>]
    /\ fnPc = "drawn"
    /\ ApiIdle /\ HybridIdle /\ CombineIdle

\* migrate_sas_files up to the loop: no file, nothing is done
StartMigration ==
    /\ fnPc = "drawn"
    /\ Len(fnOut.after) < NumRuns
    /\ IF Len(fnIn.dir) = 0
       THEN /\ fnOut' = [fnOut EXCEPT !.after = Append(@, fnOut.s.db)]
            /\ fnPc' = IF Len(fnOut.after) + 1 = NumRuns THEN "done" ELSE "drawn"
       ELSE /\ fnOut' = [fnOut EXCEPT !.queue = SortByPriority(fnIn.dir)]
            /\ fnPc' = "running"
    /\ UNCHANGED <<fnIn, apiVars, hybVars, cmbVars>>

\* one turn of the loop
MigrateNext ==
    /\ fnPc = "running"
    /\ Len(fnOut.queue) > 0
    /\ fnOut' = [fnOut EXCEPT !.s = MigrateFile(fnOut.s, Head(fnOut.queue)),
                              !.queue = Tail(@)]
    /\ UNCHANGED <<fnIn, fnPc, apiVars, hybVars, cmbVars>>

\* conn.close(): what was not committed is gone
FinishMigration ==
    /\ fnPc = "running"
    /\ Len(fnOut.queue) = 0
    /\ fnOut' = [fnOut EXCEPT !.s = Rollback(fnOut.s), !.after = Append(@, fnOut.s.db)]
    /\ fnPc' = IF Len(fnOut.after) + 1 = NumRuns THEN "done" ELSE "drawn"
    /\ UNCHANGED <<fnIn, apiVars, hybVars, cmbVars>>

NextMigrate == StartMigration \/ MigrateNext \/ FinishMigration

SpecMigrate == InitMigrate /\ [][NextMigrate]_vars

----------------------------------------------------------------------------
(* utils/agentic_router.py: AgenticRouter.route_query and _fallback_route.   *)
(* The answer of the LLM call is one of: the call raises; the content is    *)
(* None or empty; the content is no JSON; the content is JSON of some type, *)
(* and for an object the value under "route", if the key is there.          *)

sql_keywords ==
    <<<<"h", "o", "w", " ", "m", "a", "n", "y">>,
      <<"c", "o", "u", "n", "t">>,
      <<"p", "a", "t", "i", "e", "n", "t">>,
      <<"s", "u", "b", "j", "e", "c", "t">>,
      <<"a", "g", "e">>,
      <<"s", "e", "x">>,
      <<"g", "e", "n", "d", "e", "r">>,
      <<"t", "r", "e", "a", "t", "m", "e", "n", "t">>,
      <<"a", "r", "m">>,
      <<"v", "i", "s", "i", "t">>,
      <<"e", "v", "e", "n", "t">>,
      <<"s", "h", "o", "w", " ", "m", "e">>,
      <<"l", "i", "s", "t">>,
      <<"f", "i", "l", "t", "e", "r">>>>

doc_keywords ==
    <<<<"i", "n", "c", "l", "u", "s", "i", "o", "n">>,
      <<"e", "x", "c", "l", "u", "s", "i", "o", "n">>,
      <<"c", "r", "i", "t", "e", "r", "i", "a">>,
      <<"p", "r", "o", "t", "o", "c", "o", "l">>,
      <<"d", "e", "s", "i", "g", "n">>,
      <<"m", "e", "t", "h", "o", "d", "o", "l", "o", "g", "y">>,
      <<"p", "r", "o", "c", "e", "d", "u", "r", "e">>,
      <<"g", "u", "i", "d", "e", "l", "i", "n", "e">>>>

\* any(kw in query_lower for kw in keywords)
AnyKeywordIn(keywords, query_lower) ==
    \E i \in 1..Len(keywords) : StrIn(keywords[i], query_lower)

RoutePdf == <<"p", "d", "f">>
RouteSas == <<"s", "a", "s">>
RouteBoth == <<"b", "o", "t", "h">>

_fallback_route(query) ==
    LET query_lower == StrLower(query)
        has_sql == AnyKeywordIn(sql_keywords, query_lower)
        has_doc == AnyKeywordIn(doc_keywords, query_lower)
    IN  IF has_sql /\ has_doc THEN RouteBoth
        ELSE IF has_sql THEN RouteSas
        ELSE RoutePdf

valid_routes == {RoutePdf, RouteSas, RouteBoth}

\* mutation of ValidRoute: every string the LLM gives is taken
ValidRoute_any(route) == TRUE

\* route in valid_routes
ValidRoute(route) == route \in valid_routes

\* routing_decision.get("route", "").lower(): the lowered string, or the
\* AttributeError of a value that is no string
LoweredRoute(llm) ==
    IF llm.route = {} THEN Returned(<<>>)
    ELSE LET value == CHOOSE v \in llm.route : TRUE
         IN  IF value.type = "str" THEN Returned(StrLower(value.text))
             ELSE RaisedError("AttributeError")

\* route_query(query, context_examples): every except clause returns the
\* fallback's route
route_query(query, llm) ==
    IF llm.kind = "api_error" THEN Returned(_fallback_route(query))
    ELSE IF llm.kind \in {"content_none", "content_empty"} THEN Returned(_fallback_route(query))
    ELSE IF llm.kind = "malformed" THEN Returned(_fallback_route(query))
    ELSE IF llm.json_type # "object" THEN Returned(_fallback_route(query))
    ELSE LET lowered == LoweredRoute(llm)
         IN  IF lowered.exc # "none" THEN Returned(_fallback_route(query))
             ELSE LET route == CHOOSE r \in lowered.val : TRUE
                  IN  IF ~ValidRoute(route) THEN Returned(_fallback_route(query))
                      ELSE Returned(route)

\* the answers of the LLM call drawn
LlmFailure(kind) == [kind |-> kind, json_type |-> "none", route |-> {}]
LlmJson(json_type, route) == [kind |-> "json", json_type |-> json_type, route |-> route]
RouteStr(text) == [type |-> "str", text |-> text]
RouteOther(type) == [type |-> type, text |-> <<>>]

RouteTexts ==
    {<<"p", "d", "f">>,
     <<"s", "a", "s">>,
     <<"b", "o", "t", "h">>,
     <<"P", "D", "F">>,
     <<"B", "o", "t", "h">>,
     <<"a", "l", "l">>,
     <<"c", "o", "n", "t", "e", "x", "t">>,
     <<>>,
     <<" ", "p", "d", "f">>}

LlmAnswers ==
    {LlmFailure(k) : k \in {"api_error", "content_none", "content_empty", "malformed"}}
      \cup {LlmJson(t, {}) : t \in {"list", "number", "string", "null", "object"}}
      \cup {LlmJson("object", {RouteOther(t)}) : t \in {"null", "number", "list"}}
      \cup {LlmJson("object", {RouteStr(text)}) : text \in RouteTexts}

\* the queries drawn: one or two of these phrases
RoutePhrases ==
    {<<"H", "o", "w", " ", "m", "a", "n", "y", " ", "p", "a", "t", "i", "e", "n", "t", "s">>,
     <<"i", "n", "c", "l", "u", "s", "i", "o", "n", " ", "c", "r", "i", "t", "e", "r", "i", "a">>,
     <<"t", "h", "e", " ", "n", "e", "x", "t", " ", "p", "a", "g", "e">>,
     <<"s", "t", "u", "d", "y", " ", "o", "v", "e", "r", "v", "i", "e", "w">>,
     <<"P", "r", "o", "t", "o", "c", "o", "l">>}

RouteQueries ==
    RoutePhrases \cup {p \o <<" ">> \o q : p \in RoutePhrases, q \in RoutePhrases}

\* SpecRoute: route_query on every query and every answer of the LLM drawn
InitRoute ==
    /\ fnIn \in [query : RouteQueries, llm : LlmAnswers]
    /\ fnOut = <<>>
    /\ fnPc = "drawn"
    /\ ApiIdle /\ HybridIdle /\ CombineIdle

RouteQuery ==
    /\ fnPc = "drawn"
    /\ fnOut' = route_query(fnIn.query, fnIn.llm)
    /\ fnPc' = "done"
    /\ UNCHANGED <<fnIn, apiVars, hybVars, cmbVars>>

NextRoute == RouteQuery

SpecRoute == InitRoute /\ [][NextRoute]_vars

----------------------------------------------------------------------------
(* HybridRetriever._search_sas_sql on the row sets a statement may return (SpecSqlRows) *)

\* longest row set of mixed rows that is enumerated
MaxRows == 3

\* a row with an aggregate column next to a plain one, e.g. SELECT sex, COUNT(*) AS count
MixedRow == [keys |-> {"count", "sex"}, nonnull |-> {"count", "sex"}]
RowKinds == {AggRow, NullAggRow, PlainRow, MixedRow}

\* short row sets of every mix, and uniform ones at and just over the row limit
SqlRowSets ==
    UNION {[1..n -> RowKinds] : n \in 0..MaxRows}
    \cup {[i \in 1..n |-> r] : n \in {MaxAggregationRows, MaxAggregationRows + 1},
                               r \in RowKinds}

InitSqlRows ==
    /\ fnIn \in SqlRowSets
    /\ fnOut = <<>>
    /\ fnPc = "drawn"
    /\ ApiIdle /\ HybridIdle /\ CombineIdle

\* one call with a MySQL client whose generated statement returns the rows fnIn
SearchSasSql ==
    /\ fnPc = "drawn"
    /\ fnOut' = _search_sas_sql(TRUE, [gen_raises |-> FALSE, exec_raises |-> FALSE,
                                       rows |-> fnIn]).val
    /\ fnPc' = "done"
    /\ UNCHANGED <<fnIn, apiVars, hybVars, cmbVars>>

NextSqlRows == SearchSasSql

SpecSqlRows == InitSqlRows /\ [][NextSqlRows]_vars

----------------------------------------------------------------------------
(* AnswerGenerator.generate (SpecGenerate) *)

\* a chunk text is [ws: whitespace characters before its body, len: characters of the
\* body]; text.strip() keeps the body
StripLen(text) == text.len

\* len("[Source: PDF, Relevance: 0.95]\n") for a three-letter corpus
HeaderLen == 31

\* the slice  first_chunk[:500]
FallbackChars == 500

\* the for loop over context_chunks: the lengths of the context sections built
RECURSIVE ContextSections(_, _, _, _)
ContextSections(chunks, i, total_chars, max_chars) ==
    IF i > Len(chunks) THEN <<>>
    ELSE IF StripLen(chunks[i]) = 0
         THEN ContextSections(chunks, i + 1, total_chars, max_chars)
    ELSE LET part == HeaderLen + StripLen(chunks[i]) IN
         IF total_chars + part > max_chars THEN <<>>
         ELSE <<part>> \o ContextSections(chunks, i + 1, total_chars + part, max_chars)

NoInformation == "I couldn't find any relevant information to answer your question."
NoContent ==
    "I found some documents but couldn't extract meaningful content to answer your question."
NoAnswer ==
    "I couldn't generate an answer. Please check the sources below for more information."
GenerationError ==
    "I encountered an error generating an answer. Please check the sources below."

Message(text) == [kind |-> "message", text |-> text]
\* the stripped output of the model
ModelAnswer == [kind |-> "answer"]
\* f"Based on the documents: {first_chunk[:500]}..."  for chunk number i
ChunkAnswer(chunks, i) ==
    [kind |-> "chunk", prefix |-> "Based on the documents: ", chunk |-> i,
     chars |-> Min(StripLen(chunks[i]), FallbackChars), suffix |-> "..."]

\* the except branch looks at context_chunks[0] alone
FallbackChunk(chunks) ==
    IF chunks # <<>> /\ StripLen(chunks[1]) > 0
    THEN ChunkAnswer(chunks, 1)
    ELSE Message(GenerationError)

\* llm: what chat.completions.create does: "text" (non-empty content), "empty"
\* (content is "" or None) or "raises"
generate(context_chunks, max_context_tokens, llm) ==
    IF context_chunks = <<>> THEN Message(NoInformation)
    ELSE IF ContextSections(context_chunks, 1, 0, max_context_tokens * CharsPerToken) = <<>>
         THEN Message(NoContent)
    ELSE IF llm = "raises" THEN FallbackChunk(context_chunks)
    ELSE IF llm = "empty" THEN Message(NoAnswer)
    ELSE ModelAnswer

\* most chunks handed to generate
MaxChunks == 2

ChunkTexts ==
    {[ws |-> 0, len |-> 0], [ws |-> 2, len |-> 0], [ws |-> 0, len |-> 40],
     [ws |-> 1, len |-> 600]}
ContextChunks == UNION {[1..n -> ChunkTexts] : n \in 0..MaxChunks}
\* a budget no section fits in, and the default
ContextTokens == {5, 3000}
LlmOutcomes == {"text", "empty", "raises"}

InitGenerate ==
    /\ fnIn \in [context_chunks : ContextChunks, max_context_tokens : ContextTokens,
                 llm : LlmOutcomes]
    /\ fnOut = <<>>
    /\ fnPc = "drawn"
    /\ ApiIdle /\ HybridIdle /\ CombineIdle

Generate ==
    /\ fnPc = "drawn"
    /\ fnOut' = generate(fnIn.context_chunks, fnIn.max_context_tokens, fnIn.llm)
    /\ fnPc' = "done"
    /\ UNCHANGED <<fnIn, apiVars, hybVars, cmbVars>>

NextGenerate == Generate

SpecGenerate == InitGenerate /\ [][NextGenerate]_vars

----------------------------------------------------------------------------
(* MySQLClient.get_connection, execute_query, execute_query_with_limit,
   test_connection (SpecConnection) *)

\* w: what the connector does during one call.  Each of connect, cursor, execute,
\* fetchall, cursor_close, commit and rollback either returns (TRUE) or raises (FALSE);
\* configured: host, database and user are all set;  alive: what is_connected() answers
\* in the finally clause.  A step that raises raises the error named after it.
\* A run is [exc: the error in flight or "none", trace: the connector calls made].
Step(run, name, ok) ==
    [exc |-> IF ok THEN run.exc ELSE name, trace |-> Append(run.trace, name)]

\* try: <steps> finally: cursor.close()  -- the error of the finally clause wins
FinallyCursorClose(run, w) == Step(run, "cursor_close", w.cursor_close)

\* the body of  with self.get_connection() as conn  in execute_query
ExecuteQueryBody(run, w) ==
    LET c == Step(run, "cursor", w.cursor) IN
    IF c.exc # "none" THEN c
    ELSE LET e == Step(c, "execute", w.execute) IN
         IF e.exc # "none" THEN FinallyCursorClose(e, w)
         ELSE FinallyCursorClose(Step(e, "fetchall", w.fetchall), w)

\* the body of the with statement in test_connection: no finally clause
TestConnectionBody(run, w) ==
    LET c == Step(run, "cursor", w.cursor) IN
    IF c.exc # "none" THEN c
    ELSE LET e == Step(c, "execute", w.execute) IN
         IF e.exc # "none" THEN e
         ELSE LET f == Step(e, "fetchall", w.fetchall) IN
              IF f.exc # "none" THEN f
              ELSE Step(f, "cursor_close", w.cursor_close)

Body(op, run, w) ==
    IF op = "test_connection" THEN TestConnectionBody(run, w)
    ELSE ExecuteQueryBody(run, w)

\* except Exception: if conn: conn.rollback(); ...; raise
ExceptRollback(run, w) ==
    IF run.exc = "none" THEN run ELSE Step(run, "rollback", w.rollback)

\* finally: if conn and conn.is_connected(): conn.close()
FinallyClose_on_success(run, w) ==
    IF w.alive /\ run.exc = "none" THEN Step(run, "close", TRUE)
    ELSE Step(run, "is_connected", TRUE)

FinallyClose(run, w) ==
    IF w.alive THEN Step(run, "close", TRUE) ELSE Step(run, "is_connected", TRUE)

\* the scoped connection around one body
get_connection(op, w) ==
    IF ~w.configured THEN [exc |-> "ValueError", trace |-> <<>>]
    ELSE LET conn == Step([exc |-> "none", trace |-> <<>>], "connect", w.connect) IN
         IF conn.exc # "none" THEN conn
         ELSE LET body == Body(op, conn, w)
                  done == IF body.exc = "none" THEN Step(body, "commit", w.commit)
                          ELSE body
              IN  FinallyClose(ExceptRollback(done, w), w)

\* the value the rows of the statement stand for
Rows == "rows"

execute_query(w) ==
    LET run == get_connection("execute_query", w) IN
    [exc |-> run.exc, val |-> IF run.exc = "none" THEN {Rows} ELSE {}, trace |-> run.trace]

\* execute_query_with_limit ends in  return self.execute_query(query, params)
QueryWithLimit(w) == execute_query(w)

\* try: with ...: return True / except Exception: return False
test_connection(w) ==
    LET run == get_connection("test_connection", w) IN
    [exc |-> "none", val |-> {run.exc = "none"}, trace |-> run.trace]

ClientOps == {"execute_query", "execute_query_with_limit", "test_connection"}

ConnectorWorlds ==
    [configured : BOOLEAN, connect : BOOLEAN, cursor : BOOLEAN, execute : BOOLEAN,
     fetchall : BOOLEAN, cursor_close : BOOLEAN, commit : BOOLEAN, rollback : BOOLEAN,
     alive : BOOLEAN]

InitConnection ==
    /\ fnIn \in [op : ClientOps, w : ConnectorWorlds]
    /\ fnOut = <<>>
    /\ fnPc = "drawn"
    /\ ApiIdle /\ HybridIdle /\ CombineIdle

ClientCall ==
    /\ fnPc = "drawn"
    /\ fnOut' = CASE fnIn.op = "execute_query" -> execute_query(fnIn.w)
                  [] fnIn.op = "execute_query_with_limit" -> QueryWithLimit(fnIn.w)
                  [] fnIn.op = "test_connection" -> test_connection(fnIn.w)
    /\ fnPc' = "done"
    /\ UNCHANGED <<fnIn, apiVars, hybVars, cmbVars>>

NextConnection == ClientCall

SpecConnection == InitConnection /\ [][NextConnection]_vars

----------------------------------------------------------------------------
(* Chat page: send_message (SpecSend) *)

\* def send_message(query, retry_count: int = 2)
RetryCount == 2

\* str(e) of the HTTPError that response.raise_for_status() raises:
\*   "<status> Server Error: <reason> for url: <url>"
ServerErrorText == <<" ", "S", "e", "r", "v", "e", "r", " ", "E", "r", "r", "o", "r", ":", " ">>
ForUrlText == <<" ", "f", "o", "r", " ", "u", "r", "l", ":", " ">>
ChatPath == <<"/", "v", "1", "/", "c", "h", "a", "t">>
Reason(status) ==
    IF status = 504 THEN <<"G", "a", "t", "e", "w", "a", "y", " ", "T", "i", "m", "e", "o", "u", "t">>
    ELSE <<"I", "n", "t", "e", "r", "n", "a", "l", " ", "S", "e", "r", "v", "e", "r", " ", "E", "r", "r", "o", "r">>
HttpErrorStr(status, api_url) ==
    DecStr(status) \o ServerErrorText \o Reason(status) \o ForUrlText \o api_url \o ChatPath

\* "504" in error_str or "Gateway Timeout" in error_str
MentionsGatewayTimeout(error_str) ==
    StrIn(<<"5", "0", "4">>, error_str) \/ StrIn(<<"G", "a", "t", "e", "w", "a", "y", " ", "T", "i", "m", "e", "o", "u", "t">>, error_str)

\* what one requests.post does: a 2xx response ("ok"), requests.exceptions.Timeout,
\* or a response of a failing status, which raise_for_status turns into an HTTPError
PostOk == [kind |-> "ok", status |-> 200]
PostTimeout == [kind |-> "Timeout", status |-> 0]
PostStatus(status) == [kind |-> "HTTPError", status |-> status]

\* one pass of the for loop: "continue", or the value returned
OneAttempt(post, attempt, retry_count, api_url) ==
    IF post.kind = "ok" THEN "body"
    ELSE IF post.kind = "Timeout"
         THEN IF attempt < retry_count THEN "continue" ELSE "None"
    ELSE IF MentionsGatewayTimeout(HttpErrorStr(post.status, api_url))
         THEN IF attempt < retry_count THEN "continue" ELSE "None"
    ELSE "None"

\* RAG_API_URL: the API on port 8000 and on port 8504
ApiUrls == {<<"h", "t", "t", "p", ":", "/", "/", "a", "p", "i", ":", "8", "0", "0", "0">>, <<"h", "t", "t", "p", ":", "/", "/", "a", "p", "i", ":", "8", "5", "0", "4">>}
Posts == {PostOk, PostTimeout, PostStatus(504), PostStatus(500)}

\* fnIn: the session's api_url and what each post of the call meets
\* fnOut: attempt (the loop variable), made (posts made), ret (the value returned)
InitSend ==
    /\ fnIn \in [api_url : ApiUrls, posts : [1..(RetryCount + 1) -> Posts]]
    /\ fnOut = [attempt |-> 0, made |-> 0, ret |-> "pending"]
    /\ fnPc = "sending"
    /\ ApiIdle /\ HybridIdle /\ CombineIdle

\* one pass of  for attempt in range(retry_count + 1)
Attempt ==
    /\ fnPc = "sending"
    /\ fnOut.attempt < RetryCount + 1
    /\ LET r == OneAttempt(fnIn.posts[fnOut.attempt + 1], fnOut.attempt, RetryCount,
                           fnIn.api_url)
       IN  /\ fnOut' = [attempt |-> IF r = "continue" THEN fnOut.attempt + 1
                                    ELSE fnOut.attempt,
                        made |-> fnOut.made + 1,
                        ret |-> IF r = "continue" THEN "pending" ELSE r]
           /\ fnPc' = IF r = "continue" THEN "sending" ELSE "done"
    /\ UNCHANGED <<fnIn, apiVars, hybVars, cmbVars>>

\* (the  return None  after the for statement is never reached: the last pass returns)
NextSend == Attempt

\* a pass of the loop that can run does run
SpecSend == InitSend /\ [][NextSend]_vars /\ WF_vars(NextSend)

----------------------------------------------------------------------------
(* Front end: one browser session over the login, trial-selection and chat pages
   (SpecSession) *)

\* fnOut is st.session_state (a key that is absent or None is the empty set),
\* fnPc the page shown, fnIn the last thing the user did
NewSession ==
    [authenticated |-> FALSE, username |-> {}, selected_trial |-> {}, messages |-> <<>>]

\* most messages of a history that is followed
MaxMessages == 2

Usernames == {"ann", "bob"}
\* the one trial of the catalog that is not stubbed
TrialIds == {"trial_1"}
Prompts == {"q"}
\* the answer of send_message: a body, or None
Responses == {{"answer"}, {}}

\* the guard at the top of the trial-selection and chat pages
Guarded(page, state) ==
    IF page \in {"trials", "chat"} /\ ~state.authenticated THEN "login" ELSE page

InitSession ==
    /\ fnIn = [op |-> "open"]
    /\ fnOut = NewSession
    /\ fnPc = "login"
    /\ ApiIdle /\ HybridIdle /\ CombineIdle

\* the browser opens a page of the application by its address
OpenPage ==
    /\ \E page \in {"login", "trials", "chat"} : fnPc' = Guarded(page, fnOut)
    /\ fnIn' = [op |-> "open"]
    /\ UNCHANGED <<fnOut, apiVars, hybVars, cmbVars>>

\* login page: the form is submitted with a username and a password
Login ==
    /\ fnPc = "login"
    /\ \E username \in Usernames :
          fnOut' = [fnOut EXCEPT !.authenticated = TRUE, !.username = {username}]
    /\ fnPc' = "trials"
    /\ fnIn' = [op |-> "login"]
    /\ UNCHANGED <<apiVars, hybVars, cmbVars>>

\* trial-selection page: "Chat with <trial>"
SelectTrial ==
    /\ fnPc = "trials"
    /\ \E id \in TrialIds : fnOut' = [fnOut EXCEPT !.selected_trial = {id}]
    /\ fnPc' = "chat"
    /\ fnIn' = [op |-> "select_trial"]
    /\ UNCHANGED <<apiVars, hybVars, cmbVars>>

\* trial-selection page: the sidebar's Logout button
LogoutFromTrials ==
    /\ fnPc = "trials"
    /\ fnOut' = [fnOut EXCEPT !.authenticated = FALSE, !.selected_trial = {}]
    /\ fnPc' = "login"
    /\ fnIn' = [op |-> "logout_trials"]
    /\ UNCHANGED <<apiVars, hybVars, cmbVars>>

\* chat page: a question is submitted; the answer, if one comes, is appended
Ask ==
    /\ fnPc = "chat"
    /\ Len(fnOut.messages) < MaxMessages
    /\ \E prompt \in Prompts, response \in Responses :
          LET asked == Append(fnOut.messages,
                              [role |-> "user", content |-> prompt,
                               by |-> fnOut.username])
          IN  fnOut' = [fnOut EXCEPT !.messages =
                            IF response # {}
                            THEN Append(asked, [role |-> "assistant",
                                                content |-> "answer",
                                                by |-> fnOut.username])
                            ELSE asked]
    /\ fnIn' = [op |-> "ask"]
    /\ UNCHANGED <<fnPc, apiVars, hybVars, cmbVars>>

\* chat page: the sidebar's New Conversation button
NewConversation ==
    /\ fnPc = "chat"
    /\ fnOut' = [fnOut EXCEPT !.messages = <<>>]
    /\ fnIn' = [op |-> "new_conversation"]
    /\ UNCHANGED <<fnPc, apiVars, hybVars, cmbVars>>

\* chat page: the sidebar's Logout button
LogoutFromChat ==
    /\ fnPc = "chat"
    /\ fnOut' = [fnOut EXCEPT !.authenticated = FALSE]
    /\ fnPc' = "login"
    /\ fnIn' = [op |-> "logout_chat"]
    /\ UNCHANGED <<apiVars, hybVars, cmbVars>>

NextSession ==
    \/ OpenPage \/ Login \/ SelectTrial \/ LogoutFromTrials
    \/ Ask \/ NewConversation \/ LogoutFromChat

SpecSession == InitSession /\ [][NextSession]_vars

----------------------------------------------------------------------------
(* create_table_with_schema: the PRIMARY KEY clause of the CREATE TABLE statement
   (SpecPrimaryKey) *)

Usubjid == <<"u", "s", "u", "b", "j", "i", "d">>

\* the items of composite_key_candidates: <<table name, key columns>>
composite_key_candidates ==
    <<<<<<"e", "v", "e", "n", "t", "s">>,
        <<<<"s", "u", "b", "j", "i", "d">>, <<"a", "e", "i", "d">>, <<"a", "e", "s", "e", "q", "i", "d">>>>>>,
      <<<<"l", "e", "s", "i", "o", "n", "s">>,
        <<<<"s", "u", "b", "j", "i", "d">>, <<"l", "s", "i", "d">>>>>>,
      <<<<"v", "i", "s", "i", "t">>,
        <<<<"s", "u", "b", "j", "i", "d">>, <<"v", "i", "s", "f", "w", "d", "i", "d">>>>>>,
      <<<<"v", "i", "t", "a", "l", "s">>,
        <<<<"s", "u", "b", "j", "i", "d">>, <<"v", "i", "s", "f", "w", "d", "i", "d">>, <<"v", "s", "t", "e", "s", "t", "c", "d">>>>>>,
      <<<<"c", "m", "t", "p", "y">>,
        <<<<"s", "u", "b", "j", "i", "d">>, <<"c", "m", "i", "d">>>>>>,
      <<<<"s", "d", "y", "t", "r", "t">>,
        <<<<"s", "u", "b", "j", "i", "d">>, <<"s", "d", "y", "t", "r", "t", "i", "d">>>>>>,
      <<<<"t", "t", "e", "v", "e", "n", "t">>,
        <<<<"s", "u", "b", "j", "i", "d">>, <<"t", "t", "e", "c", "d">>>>>>>>

IsCompositeTable(table_name) ==
    \E i \in 1..Len(composite_key_candidates) : composite_key_candidates[i][1] = table_name

CompositeCols(table_name) ==
    composite_key_candidates[CHOOSE i \in 1..Len(composite_key_candidates) :
                                composite_key_candidates[i][1] = table_name][2]

\* [c for c in seq if c in columns]
RECURSIVE Present(_, _)
Present(seq, columns) ==
    IF seq = <<>> THEN <<>>
    ELSE (IF Head(seq) \in columns THEN <<Head(seq)>> ELSE <<>>)
         \o Present(Tail(seq), columns)

\* if "subjid" in columns: append;  if "usubjid" in columns and "subjid" not in columns: append
primary_key_cols(columns) ==
    (IF Subjid \in columns THEN <<Subjid>> ELSE <<>>)
    \o (IF Usubjid \in columns /\ Subjid \notin columns THEN <<Usubjid>> ELSE <<>>)

\* the columns of the PRIMARY KEY clause (none: the statement has no such clause)
PrimaryKey(table_name, columns) ==
    LET pk == primary_key_cols(columns) IN
    IF pk = <<>> THEN <<>>
    ELSE IF Len(pk) = 1 THEN <<pk[1]>>
    ELSE IF IsCompositeTable(table_name)
         THEN Present(CompositeCols(table_name), columns)
         ELSE <<pk[1]>>

\* the tables and the columns of the SAS file (as the file spells them)
KeyTables == {<<"e", "v", "e", "n", "t", "s">>, <<"l", "e", "s", "i", "o", "n", "s">>, <<"s", "u", "b", "j", "i", "n", "f", "o">>}
RawColumns == {<<"S", "U", "B", "J", "I", "D">>, <<"U", "S", "U", "B", "J", "I", "D">>, <<"A", "E", "I", "D">>, <<"A", "E", "S", "E", "Q", "I", "D">>, <<"L", "S", "I", "D">>, <<"S", "E", "X">>}

InitPrimaryKey ==
    /\ fnIn \in [table_name : KeyTables, columns : SUBSET RawColumns]
    /\ fnOut = <<>>
    /\ fnPc = "drawn"
    /\ ApiIdle /\ HybridIdle /\ CombineIdle

\* the CREATE TABLE statement is built from the cleaned column names
BuildCreateSql ==
    /\ fnPc = "drawn"
    /\ fnOut' = PrimaryKey(fnIn.table_name,
                           {clean_column_name(col) : col \in fnIn.columns})
    /\ fnPc' = "done"
    /\ UNCHANGED <<fnIn, apiVars, hybVars, cmbVars>>

NextPrimaryKey == BuildCreateSql

SpecPrimaryKey == InitPrimaryKey /\ [][NextPrimaryKey]_vars

----------------------------------------------------------------------------
(* Claims about HybridRetriever.search, load, close (SpecHybrid) *)

Searched == hrCall.op = "search"

Contains(seq, x) == \E i \in 1..Len(seq) : seq[i] = x

\* the retrieval sub-steps that raise in world w
FailingSteps(w) ==
    {f \in {"cache", "generate_sql", "execute_sql", "vector_count", "vector_query"} :
        \/ f = "cache" /\ w.cache.raises
        \/ f = "generate_sql" /\ w.sql.gen_raises
        \/ f = "execute_sql" /\ w.sql.exec_raises
        \/ f = "vector_count" /\ w.vec.count_raises
        \/ f = "vector_query" /\ w.vec.query_raises}

\* world w with the source of sub-step f answering with nothing instead of raising
Silenced(w, f) ==
    CASE f = "cache" -> [w EXCEPT !.cache = [raises |-> FALSE, sims |-> <<>>]]
      [] f \in {"generate_sql", "execute_sql"} ->
            [w EXCEPT !.sql = [gen_raises |-> FALSE, exec_raises |-> FALSE, rows |-> <<>>]]
      [] OTHER ->
            [w EXCEPT !.vec = [count_raises |-> FALSE, query_raises |-> FALSE, dists |-> <<>>]]

WellFormed(llm) ==
    \A k \in {"pdf_quality", "sas_quality", "context_quality"} :
        \A q \in llm.dict[k] : q.num

\* C2: a retrieval sub-step of search() that raises (cache search, SQL
\* generation, SQL execution, vector search) never makes search() raise: the
\* call ends as it would have ended had that source answered with nothing -
\* same result sets of every source, same combined list - and it returns
\* normally whenever the quality evaluation carries numbers.
C2_FailingSourceDegrades ==
    Searched /\ hr.loaded =>
        \A f \in FailingSteps(hrCall.w) :
            LET quiet == search(hr, Silenced(hrCall.w, f), hrCall.top_k)
            IN  /\ hrCall.out.exc = quiet.exc
                /\ hrCall.out.val = quiet.val
                /\ hrCall.out.pdf_results = quiet.pdf_results
                /\ hrCall.out.sas_results = quiet.sas_results
                /\ hrCall.out.context_results = quiet.context_results
                /\ (WellFormed(hrCall.w.llm) => hrCall.out.exc = "none")

\* a search in which the vector store's count raised while the SQL path gave rows
C2_Witness ==
    /\ Searched /\ hrCall.w.route = "both"
    /\ hrCall.w.vec.count_raises /\ Contains(hrCall.out.trace, "vector_count")
    /\ hrCall.out.exc = "none"
    /\ hrCall.out.pdf_results = <<>>
    /\ Len(hrCall.out.sas_results) > 0
    /\ Len(hrCall.out.val) > 0

\* the cache's best similarity to the query, when the cache answers
CacheHasHit(cache) ==
    ~cache.raises /\ \E i \in 1..Len(cache.sims) : cache.sims[i] > CacheHitThreshold

Before(trace, a, b) ==
    \A j \in 1..Len(trace) : trace[j] = b => \E i \in 1..(j - 1) : trace[i] = a

\* C3: in a search whose route enables SQL search, a top cache score above 0.5
\* means neither SQL generation nor SQL execution is performed; the cache is
\* consulted before any SQL generation; and it is not consulted at all when
\* the route does not enable SQL search.
C3_CacheHitSkipsSql ==
    Searched /\ hr.loaded =>
        /\ (SearchSas(hrCall.w.route) /\ CacheHasHit(hrCall.w.cache) =>
                /\ ~Contains(hrCall.out.trace, "generate_sql")
                /\ ~Contains(hrCall.out.trace, "execute_sql"))
        /\ Before(hrCall.out.trace, "cache", "generate_sql")
        /\ (~SearchSas(hrCall.w.route) => ~Contains(hrCall.out.trace, "cache"))

\* a SQL-routed search with a database client, a working SQL path and a cache hit
C3_Witness ==
    /\ Searched /\ hrCall.w.route = "sas" /\ hr.mysql_client
    /\ CacheHasHit(hrCall.w.cache)
    /\ ~hrCall.w.sql.gen_raises /\ ~hrCall.w.sql.exec_raises /\ Len(hrCall.w.sql.rows) > 0
    /\ Contains(hrCall.out.trace, "cache")
    /\ hrCall.out.sas_results = <<>>
    /\ Len(hrCall.out.val) > 0

\* C4: search() raises the Not-Loaded error, having called neither the router
\* nor any source, exactly when the last lifecycle call on the orchestrator
\* was its construction or close(); after close() the loaded flag is false.
C4_NotLoadedExactly ==
    /\ (Searched =>
            /\ (hrCall.out.exc = "NotLoaded") <=> (hrLife \in {"new", "close"})
            /\ (hrCall.out.exc = "NotLoaded" => hrCall.out.trace = <<>>)
            /\ (hrCall.out.exc # "NotLoaded" => Contains(hrCall.out.trace, "route_query")))
    /\ (hrLife = "close" => ~hr.loaded)

\* a search on an orchestrator that was loaded and then closed
C4_Witness ==
    /\ Searched /\ hrLife = "close" /\ hr.pdf_retriever = "unloaded"
    /\ hrCall.out.exc = "NotLoaded"

\* the context_quality of the evaluation this search obtained
SearchContextQuality ==
    Get(evaluate_result_quality(hrCall.w.llm, hrCall.out.pdf_results,
                                hrCall.out.sas_results,
                                hrCall.out.context_results).context_quality,
        QNum(0)).n

\* the list returned holds a cache entry whose score is its similarity times
\* the context quality times num/10
ContextScaledBy(num) ==
    \E i \in 1..Len(hrCall.out.val) : \E j \in 1..Len(hrCall.out.context_results) :
        /\ hrCall.out.val[i].corpus = "context"
        /\ hrCall.out.val[i].chunk_id = hrCall.out.context_results[j].chunk_id
        /\ hrCall.out.context_results[j].score * SearchContextQuality > 0
        /\ hrCall.out.val[i].score =
              (hrCall.out.context_results[j].score * SearchContextQuality * num) \div 1000

\* C19: in a search, cache entries carry the x1.3 boost only when SQL
\* generation was skipped because of a cache hit (top cache score > 0.5);
\* when SQL generation ran, whether or not it gave rows, no cache entry
\* carries the boost (they are x0.8 supplements).
C19_BoostOnlyOnCacheHit ==
    Searched /\ hrCall.out.exc = "none" =>
        /\ ContextScaledBy(13) =>
              SearchSas(hrCall.w.route) /\ CacheHasHit(hrCall.w.cache)
        /\ Contains(hrCall.out.trace, "generate_sql") => ~ContextScaledBy(13)

\* C20: a search that skips SQL generation because of a cache hit returns a
\* non-empty list that contains the top cache entry, whatever evaluation
\* (from the LLM or the fallback) and whatever recommendation it obtained.
C20_CacheHitIsReturned ==
    Searched /\ hr.loaded /\ hrCall.out.exc = "none"
        /\ SearchSas(hrCall.w.route) /\ CacheHasHit(hrCall.w.cache) =>
            /\ Len(hrCall.out.val) > 0
            /\ \E i \in 1..Len(hrCall.out.val) :
                  /\ hrCall.out.val[i].corpus = "context"
                  /\ hrCall.out.val[i].chunk_id = hrCall.out.context_results[1].chunk_id

----------------------------------------------------------------------------
(* Claims about the process and its endpoints (Spec, SpecRequest) *)

\* request r has been through the handler of `kind` and its response is not yet sent
Handled(r, kind) == reqs[r].pc = "handled" /\ reqs[r].kind = kind

\* C1: however the first requests to /v1/chat and /v1/status interleave, the
\* body of the lazy-initialization guard runs to success at most once in the
\* process: the guard never builds (constructs and loads) a second
\* orchestrator, and once the flag is set it has built exactly one.
C1_LazyInitAtMostOnce ==
    /\ built.lazy <= 1
    /\ _initialized => built.lazy = 1

\* two first requests in flight together, a chat and a status, both arrived
\* before any orchestrator existed: one ran the initialization, the other
\* found the flag set
C1_Witness ==
    \E r \in DOMAIN reqs : \E s \in DOMAIN reqs :
        /\ r # s
        /\ reqs[r].fresh /\ reqs[s].fresh
        /\ Handled(r, "chat") /\ Handled(s, "status")
        /\ reqs[r].resp.init = "ok" /\ reqs[s].resp.init = "skipped"
        /\ built.lazy = 1

\* C5: a /v1/chat request handled while there is no loaded orchestrator (the
\* lazy initialization it attempted included) is answered with HTTP 503, and
\* neither a search nor an answer generation is performed.
C5_NotReadyIs503 ==
    \A r \in DOMAIN reqs :
        Handled(r, "chat") /\ ~reqs[r].resp.ready =>
            /\ reqs[r].resp.status = 503
            /\ ~reqs[r].resp.searched
            /\ reqs[r].resp.answered = "none"

\* C6, as stated: a /v1/status request that arrived before any orchestrator was
\* built is answered with HTTP 503.
C6_FreshStatusIs503 ==
    \A r \in DOMAIN reqs :
        Handled(r, "status") /\ reqs[r].fresh => reqs[r].resp.status = 503

\* C6, amended: a /v1/status request that arrived before any orchestrator was
\* built is answered with HTTP 503 exactly when the lazy initialization its
\* handler attempts fails, and with HTTP 200 when that initialization succeeds
\* or another request has completed it in the meantime; the failure never
\* escapes the handler.
C6_FreshStatus503IffInitFails ==
    \A r \in DOMAIN reqs :
        Handled(r, "status") /\ reqs[r].fresh =>
            /\ ~reqs[r].resp.unhandled
            /\ reqs[r].resp.status = 503 <=> reqs[r].resp.init = "failed"
            /\ reqs[r].resp.status = 200 <=> reqs[r].resp.init \in {"ok", "skipped"}

\* a first status request whose initialization failed, answered with 503
C6_Witness ==
    \E r \in DOMAIN reqs :
        /\ Handled(r, "status") /\ reqs[r].fresh
        /\ reqs[r].resp.init = "failed"
        /\ reqs[r].resp.status = 503
        /\ retriever = {}

\* the parts of claim C7 that do not concern the "pdf" key: after a successful
\* initialization the answer is 200 with loaded = true, and "sas" is -1 exactly
\* when there is a client whose connection test succeeds, absent otherwise
StatusLoadedAndSas(resp) ==
    /\ resp.status = 200 /\ ~resp.unhandled
    /\ resp.loaded
    /\ resp.corpora.sas = (IF resp.seen.has_client /\ resp.seen.conn_ok THEN {-1} ELSE {})

\* C7, as stated: after a successful initialization /v1/status answers 200 with
\* loaded = true, "pdf" is the store's current document count whenever the PDF
\* retriever is loaded, and "sas" is -1 exactly when the connection test
\* succeeds (absent otherwise).
C7_StatusReportsCount ==
    \A r \in DOMAIN reqs :
        Handled(r, "status") /\ reqs[r].resp.seen.built > 0 =>
            /\ StatusLoadedAndSas(reqs[r].resp)
            /\ reqs[r].resp.seen.pdf_loaded =>
                  reqs[r].resp.corpora.pdf = {reqs[r].resp.seen.count}

\* C7, amended: after a successful initialization /v1/status answers 200 with
\* loaded = true; whenever the PDF retriever is loaded, "pdf" is the store's
\* current document count if the count query succeeds and -1 if it raises
\* (the key is absent when the PDF retriever is not loaded); "sas" is -1
\* exactly when the connection test succeeds, absent otherwise.
C7_StatusReportsCountOrUnknown ==
    \A r \in DOMAIN reqs :
        Handled(r, "status") /\ reqs[r].resp.seen.built > 0 =>
            /\ StatusLoadedAndSas(reqs[r].resp)
            /\ reqs[r].resp.corpora.pdf =
                  (IF ~reqs[r].resp.seen.pdf_loaded THEN {}
                   ELSE IF reqs[r].resp.seen.count_raises THEN {-1}
                   ELSE {reqs[r].resp.seen.count})

\* a status request after a successful initialization: the store holds three
\* documents and the database is not reachable
C7_Witness ==
    \E r \in DOMAIN reqs :
        /\ Handled(r, "status") /\ reqs[r].resp.seen.built > 0
        /\ reqs[r].resp.seen.pdf_loaded /\ ~reqs[r].resp.seen.count_raises
        /\ reqs[r].resp.seen.count = 3
        /\ reqs[r].resp.seen.has_client /\ ~reqs[r].resp.seen.conn_ok
        /\ reqs[r].resp.status = 200
        /\ reqs[r].resp.corpora = [pdf |-> {3}, sas |-> {}]

\* C10: when the router's route is "pdf", a /v1/chat answered with 200 carries
\* at most 10 citations and each one's corpus is "pdf", whatever the Q&A cache
\* holds and whatever the quality evaluation returns.
C10_PdfRouteCitesPdfOnly ==
    \A r \in DOMAIN reqs :
        Handled(r, "chat") /\ reqs[r].resp.status = 200 /\ reqs[r].resp.route = "pdf" =>
            /\ Len(reqs[r].resp.citations) <= MaxCitations
            /\ Corpora(reqs[r].resp.citations) \subseteq {"pdf"}

\* a "pdf" query asking for more than ten results of a store that holds them,
\* while the cache holds a matching question: the answer cites ten, all "pdf"
C10_Witness ==
    \E r \in DOMAIN reqs :
        /\ Handled(r, "chat") /\ reqs[r].resp.status = 200 /\ reqs[r].resp.route = "pdf"
        /\ reqs[r].resp.hot_cache
        /\ reqs[r].resp.top_k > MaxCitations
        /\ Len(reqs[r].resp.citations) = MaxCitations
        /\ Corpora(reqs[r].resp.citations) = {"pdf"}

\* C11: every response the client receives carries an X-Request-ID header,
\* whatever the endpoint and the outcome (200, 503, 500, failed
\* initialization): the client's own value when the request had one, a
\* generated identifier otherwise.
C11_EveryResponseCarriesRequestId ==
    \A r \in DOMAIN reqs :
        reqs[r].pc = "sent" =>
            reqs[r].x_request_id =
                (IF reqs[r].header \in {{}, {""}} THEN {"uuid4"} ELSE reqs[r].header)

\* C18: in a process whose startup has built (constructed and loaded) the
\* orchestrator, that is the only one ever built: the lazy-initialization
\* guard builds no second one for the requests that follow.
C18_StartupBuiltOnce ==
    built.startup = 1 => built.lazy = 0

----------------------------------------------------------------------------
(* Claims about _combine_results_intelligently (SpecCombine) *)

Combined == cmbPc = "done" /\ cmbOut.exc = "none"

QualityOf(evaluation, source) ==
    Get(CASE source = "pdf" -> evaluation.pdf_quality
          [] source = "sas" -> evaluation.sas_quality
          [] OTHER -> evaluation.context_quality, QNum(0)).n

\* C8: a source (pdf, sas, context) whose quality in the evaluation is at most
\* 0.3, or absent, has no result in the combined list, for every
\* recommendation and however many results the source returned.
C8_LowQualityContributesNothing ==
    Combined =>
        \A source \in {"pdf", "sas", "context"} :
            QualityOf(cmbIn.evaluation, source) <= QualityThreshold
                => source \notin Corpora(cmbOut.val)

\* a recommended source with results rated exactly 0.3 beside one that is kept
C8_Witness ==
    /\ Combined
    /\ cmbIn.evaluation.recommendation = {"use_both"}
    /\ cmbIn.evaluation.pdf_quality = {QNum(QualityThreshold)}
    /\ Len(cmbIn.pdf_results) > 1
    /\ Corpora(cmbOut.val) = {"sas"}

\* C9: for every recommendation, qualities and top_k >= 1 the combined list is
\* ordered by non-increasing adjusted score and has at most 2 * top_k entries.
C9_SortedAndBounded ==
    Combined =>
        /\ IsNonIncreasing(cmbOut.val)
        /\ Len(cmbOut.val) <= 2 * cmbIn.top_k

\* a list cut to 2 * top_k in which a cache entry was sorted ahead of a PDF one
C9_Witness ==
    /\ Combined
    /\ Len(cmbIn.pdf_results) + Len(cmbIn.sas_results) + Len(cmbIn.context_results)
          > 2 * cmbIn.top_k
    /\ Len(cmbOut.val) = 2 * cmbIn.top_k
    /\ \E i \in 1..Len(cmbOut.val) : \E j \in 1..Len(cmbOut.val) :
          /\ i < j
          /\ cmbOut.val[i].corpus = "context" /\ cmbOut.val[j].corpus = "pdf"
          /\ cmbOut.val[i].score > cmbOut.val[j].score

----------------------------------------------------------------------------
(* Claims about execute_query_with_limit (SpecLimit) *)

\* the LIMIT clauses of a statement: the word LIMIT in any letter case, after
\* a blank and before a blank and a number
LimitClauses(str) ==
    {i \in 2..(Len(str) - 6) :
        /\ str[i - 1] = " "
        /\ StrUpper(SubSeq(str, i, i + 4)) = LimitWord
        /\ str[i + 5] = " "
        /\ str[i + 6] \in Digits}

\* C12: for a statement without a LIMIT clause the statement executed ends in
\* "LIMIT n"; for a statement with a LIMIT clause (in any letter case) it is
\* the input unchanged; so the statement executed has exactly one LIMIT clause.
C12_ExactlyOneLimit ==
    fnPc = "done" =>
        /\ LimitClauses(fnIn.query) = {} =>
              StrEndsWith(fnOut, <<" ">> \o LimitWord \o <<" ">> \o StrOfDigit(fnIn.limit))
        /\ LimitClauses(fnIn.query) # {} => fnOut = fnIn.query
        /\ Cardinality(LimitClauses(fnOut)) = 1

----------------------------------------------------------------------------
(* Claims about _search_context (SpecContext) *)

\* the cached question the i-th result was made from
QuestionOf(i) == fnOut.got[fnOut.results[i].chunk_id.idx + 1]

\* C13: when the cache holds a question that is word for word the query, the
\* list returned starts with that example and its score is 1.0, whatever else
\* the cache holds and in whatever order.
C13_ExactMatchFirst ==
    fnPc = "done" /\ (\E i \in 1..Len(fnIn.examples) : fnIn.examples[i] = fnIn.query) =>
        /\ Len(fnOut.results) > 0
        /\ QuestionOf(1) = fnIn.query
        /\ fnOut.results[1].score = ScoreOne

----------------------------------------------------------------------------
(* Claims about chunk_text (SpecChunk) *)

\* C14: every chunk returned is at most max_tokens * 4 characters long, unless
\* it holds a sentence that is by itself longer than that; this includes the
\* chunks that start with the overlap tail of the chunk before.
C14_ChunksWithinBound ==
    fnPc = "done" =>
        \A i \in 1..Len(fnOut) :
            Len(fnOut[i].text) <= fnIn.max_tokens * CharsPerToken \/ fnOut[i].long

----------------------------------------------------------------------------
(* Claims about Q&A normalisation (SpecClean) *)

CleanDone == fnPc = "done" /\ DOMAIN fnOut = {"clean", "convert"}
CleanOut == fnOut.clean[1]
ConvertOut == fnOut.convert[1]

\* text holds the characters of str(n) followed by the fixed part
HoldsCount(text, n, part) ==
    \E i \in 1..Len(text) :
        /\ i + Len(DecStr(n)) <= Len(text)
        /\ SubSeq(text, i, i + Len(DecStr(n)) - 1) = DecStr(n)
        /\ text[i + Len(DecStr(n))] = part

\* the outcome is a string with "12 patients" and the four sub-counts 3, 4, 2, 3
TellsTheCounts(out) ==
    /\ out.exc = "none"
    /\ out.val # {}
    /\ \A text \in out.val :
        /\ HoldsCount(text, 12, " patients shows: ")
        /\ HoldsCount(text, 3, " responders with immune-related AEs, ")
        /\ HoldsCount(text, 4, " responders without immune AEs, ")
        /\ HoldsCount(text, 2, " non-responders with immune AEs, ")
        /\ HoldsCount(text, 3, " non-responders without immune AEs.")

TheCoOccurrenceAnswer ==
    DictAnswer([n |-> {IntVal(12)}, a_responder_and_immune |-> {IntVal(3)},
                b_responder_no_immune |-> {IntVal(4)}, c_nonresponder_immune |-> {IntVal(2)},
                d_nonresponder_no_immune |-> {IntVal(3)}, odds_ratio |-> {}])

AnswerIsDropped ==
    \/ fnIn.kind = "str" /\ StrStartsWith(StrLower(fnIn.text), NotComputable)
    \/ fnIn = StrAnswer(<<"C", "o", "m", "p", "u", "t", "e", "d", " ", "i", "n", " ",
                          "f", "i", "l", "e", ".">>)
    \/ fnIn.kind = "dict" /\ DictLen(fnIn.items) = 0

\* C16: both implementations return None for a string answer that begins with
\* "not computable" in any letter case, for "Computed in file." and for the
\* empty mapping; for the co-occurrence mapping of 12 patients without an
\* odds_ratio both return a string with "12 patients" and the four sub-counts;
\* and on all these answers both return the same.
C16_BothNormalizersAgree ==
    CleanDone =>
        /\ AnswerIsDropped => CleanOut = ReturnedNone /\ ConvertOut = ReturnedNone
        /\ fnIn = TheCoOccurrenceAnswer =>
            TellsTheCounts(CleanOut) /\ TellsTheCounts(ConvertOut) /\ CleanOut = ConvertOut

----------------------------------------------------------------------------
(* Claims about _generate_sql_simple (SpecSimpleSql) *)

SexIsMale == <<"s", "e", "x", " ", "=", " ", "1">>

\* C15: without the LLM, "how many patients are male" gives a statement on
\* table subjinfo whose WHERE clause holds sex = 1, and "list adverse events
\* for subject 100" gives a statement on table events.
C15_TableFromKeywords ==
    fnPc = "done" =>
        /\ fnIn = MaleQuestion =>
            /\ fnOut.exc = "none"
            /\ fnOut.table = "subjinfo"
            /\ \E sql \in fnOut.val : StrIn(SexIsMale, sql)
        /\ fnIn = EventsQuestion =>
            /\ fnOut.exc = "none"
            /\ fnOut.table = "events"

----------------------------------------------------------------------------
(* Claims about the migration (SpecMigrate) *)

MigratedTwice == fnPc = "done" /\ Len(fnOut.after) = NumRuns

\* a file of the directory whose rows were rejected by the server
InsertionFailed(f) ==
    f.readable /\ f.nrows > 0 /\ ~DuplicateColumns(f) /\ ~f.bad_value /\ f.bad_row > 0

\* C17: after the second run on the same input directory the database holds
\* the same tables, with the same columns and the same number of rows, as
\* after the first run, also where the insertion of a table's rows failed in
\* both runs.
C17_SecondRunChangesNothing ==
    MigratedTwice => fnOut.after[2] = fnOut.after[1]

\* both runs done on a directory with a table that was filled and a table
\* whose insertion failed, over tables that were there before
C17_Witness ==
    /\ MigratedTwice
    /\ fnIn.db # [t \in TableNames |-> {}]
    /\ \E i \in 1..Len(fnIn.dir) : InsertionFailed(fnIn.dir[i])
    /\ \E t \in TableNames : \E tb \in fnOut.after[2][t] : tb.rows = 2500
    /\ \E t \in TableNames : \E tb \in fnOut.after[2][t] : tb.rows = 0

----------------------------------------------------------------------------
(* Claims about route_query (SpecRoute) *)

Routed == fnPc = "done"

\* the route the keywords of the query give
KeywordRoute ==
    LET sql == AnyKeywordIn(sql_keywords, StrLower(fnIn.query))
        doc == AnyKeywordIn(doc_keywords, StrLower(fnIn.query))
    IN  IF sql /\ doc THEN RouteBoth ELSE IF sql THEN RouteSas ELSE RoutePdf

\* the strings the LLM gave under "route"
LlmRoutes == {v.text : v \in {r \in fnIn.llm.route : r.type = "str"}}
LlmGaveObject == fnIn.llm.kind = "json" /\ fnIn.llm.json_type = "object"

\* C21 as stated: route_query returns one of pdf, sas, both and never raises;
\* the route of the LLM is returned when it is one of the three, and in every
\* other case the result is the route the keywords give.
C21_ValidRouteOrFallback ==
    Routed =>
        /\ fnOut.exc = "none"
        /\ fnOut.val \subseteq valid_routes /\ fnOut.val # {}
        /\ IF LlmGaveObject /\ LlmRoutes \cap valid_routes # {}
           THEN fnOut.val = LlmRoutes
           ELSE fnOut.val = {KeywordRoute}

\* C21 amended: the same, with the route of the LLM compared and returned in
\* lower case.
C21_LoweredRouteOrFallback ==
    Routed =>
        /\ fnOut.exc = "none"
        /\ fnOut.val \subseteq valid_routes /\ fnOut.val # {}
        /\ IF LlmGaveObject /\ {StrLower(r) : r \in LlmRoutes} \cap valid_routes # {}
           THEN fnOut.val = {StrLower(r) : r \in LlmRoutes}
           ELSE fnOut.val = {KeywordRoute}

\* an upper-case route of the LLM was returned in lower case against the keywords
C21_Witness ==
    /\ Routed
    /\ LlmRoutes = {<<"P", "D", "F">>}
    /\ fnOut.val = {RoutePdf}
    /\ KeywordRoute = RouteBoth

----------------------------------------------------------------------------
(* More claims about the API process (Spec, SpecRequest) *)

\* request r is handled in this step
HandledNow(r) == reqs[r].pc = "mw" /\ reqs'[r].pc = "handled"

\* the flag is set only over an orchestrator that the guard built and loaded
FlagMeansBuilt == _initialized => retriever # {} /\ built.lazy >= 1

\* a request meets the set flag and skips, or meets the unset flag and
\* initializes; a failed initialization leaves the flag unset
FlagGuardsInit ==
    \A r \in DOMAIN reqs :
        HandledNow(r) =>
            /\ _initialized => reqs'[r].resp.init = "skipped"
            /\ ~_initialized => reqs'[r].resp.init \in {"ok", "failed"}
            /\ reqs'[r].resp.init = "failed" => ~_initialized'
            /\ reqs'[r].resp.init = "ok" => _initialized'

\* C22 as stated: _initialized is true only over a built and loaded
\* orchestrator; a failed initialization leaves it false and the next request
\* initializes again; once it is true no request changes the orchestrator, the
\* configuration or the answer generator.
C22_FlagFreezesGlobals ==
    /\ [](FlagMeansBuilt)
    /\ [][FlagGuardsInit]_vars
    /\ [][\A r \in DOMAIN reqs :
            HandledNow(r) /\ _initialized =>
                /\ retriever' = retriever
                /\ config' = config
                /\ answer_generator' = answer_generator]_vars

\* C22 amended: the same, but under the set flag a chat request may still
\* bind an answer generator when none is bound; one that is bound stays.
C22_FlagFreezesOrchestrator ==
    /\ [](FlagMeansBuilt)
    /\ [][FlagGuardsInit]_vars
    /\ [][\A r \in DOMAIN reqs :
            HandledNow(r) /\ _initialized =>
                /\ retriever' = retriever
                /\ config' = config
                /\ answer_generator => answer_generator']_vars

\* a request skipped the initialization under the set flag while another
\* request's failed initialization is still on its way out
C22_Witness ==
    /\ _initialized
    /\ \E r \in DOMAIN reqs : reqs[r].pc = "handled" /\ reqs[r].resp.init = "skipped"
    /\ \E r \in DOMAIN reqs : reqs[r].pc = "handled" /\ reqs[r].resp.init = "failed"


\* C24: the top_k a chat request hands to search is a positive integer: the
\* request's own when it gives a positive one, the configured default when it
\* gives none; a top_k of zero or less never reaches search.
C24_SearchTopKPositive ==
    \A r \in DOMAIN reqs :
        Handled(r, "chat") /\ reqs[r].resp.searched =>
            /\ reqs[r].resp.top_k >= 1
            /\ reqs[r].top_k = {} => reqs[r].resp.top_k = DefaultTopK
            /\ \A k \in reqs[r].top_k : k >= 1 => reqs[r].resp.top_k = k

----------------------------------------------------------------------------
(* Claims about the rendering of SQL row sets (SpecSqlRows) *)

\* the set is non-empty, has at most 10 rows, and every column is an aggregate name
AllAggregateColumns(rows) ==
    /\ rows # <<>>
    /\ Len(rows) <= 10
    /\ \A i \in 1..Len(rows) : rows[i].keys \subseteq AggregateVocabulary

TheSyntheticResult ==
    <<[corpus |-> "sas",
       chunk_id |-> [name |-> "sql_aggregation_result", idx |-> 0],
       score |-> ScoreOne]>>

\* row i (from 0) as the result sql_result_<i> with score 1.0 - 0.1 x i
OneResultPerRow(rows) ==
    [i \in 1..Len(rows) |->
        [corpus |-> "sas",
         chunk_id |-> [name |-> "sql_result", idx |-> i - 1],
         score |-> ScoreOne - (i - 1) * (ScoreOne \div 10)]]

\* C28: _search_sas_sql renders the row set as the single synthetic result
\* sql_aggregation_result with score 1.0 exactly when the set is non-empty, has at
\* most 10 rows and every column name of every row is in the aggregate vocabulary;
\* in every other case row i becomes the result sql_result_<i> with score
\* 1.0 - 0.1 x i.
C28_SyntheticIffAllAggregate ==
    fnPc = "done" =>
        IF AllAggregateColumns(fnIn)
        THEN fnOut = TheSyntheticResult
        ELSE fnOut = OneResultPerRow(fnIn)

\* what holds instead: the synthetic result is chosen when SOME column of some row
\* is an aggregate name and some value of the set is not null
C28_SyntheticIfAnyAggregate ==
    fnPc = "done" =>
        IF IsAggregation(fnIn) /\ Len(fnIn) <= 10
        THEN fnOut = IF \E i \in 1..Len(fnIn) : fnIn[i].nonnull # {}
                     THEN TheSyntheticResult ELSE <<>>
        ELSE fnOut = OneResultPerRow(fnIn)

----------------------------------------------------------------------------
(* Claims about AnswerGenerator.generate (SpecGenerate) *)

Generated == fnPc = "done"

SectionWasBuilt ==
    ContextSections(fnIn.context_chunks, 1, 0,
                    fnIn.max_context_tokens * CharsPerToken) # <<>>

\* the first chunk, in the given order, whose text is not empty: a set of at most one
FirstWithText ==
    {i \in 1..Len(fnIn.context_chunks) :
        /\ fnIn.context_chunks[i].len > 0
        /\ \A j \in 1..(i - 1) : fnIn.context_chunks[j].len = 0}

\* the result carries the first 500 characters of chunk i (whatever is put around them)
IsTextOfChunk(i) ==
    /\ fnOut.kind = "chunk"
    /\ fnOut.chunk = i
    /\ fnOut.chars = Min(fnIn.context_chunks[i].len, 500)

\* C27: when at least one context section was built and the model returns empty
\* output or the model call fails, generate returns the text of the first chunk (in
\* the given order) whose text is non-empty, truncated to 500 characters, and a
\* generic failure message only when no chunk has non-empty text.
C27_FallbackIsFirstTextChunk ==
    Generated /\ SectionWasBuilt /\ fnIn.llm \in {"empty", "raises"} =>
        IF FirstWithText # {}
        THEN \E i \in FirstWithText : IsTextOfChunk(i)
        ELSE fnOut.kind = "message"

----------------------------------------------------------------------------
(* Claims about the MySQL client's scoped connection (SpecConnection) *)

Called(name) == \E i \in 1..Len(fnOut.trace) : fnOut.trace[i] = name

\* the position of the first call of the name in the trace (0: never called)
CallAt(name) ==
    IF Called(name) THEN CHOOSE i \in 1..Len(fnOut.trace) :
                            /\ fnOut.trace[i] = name
                            /\ \A j \in 1..(i - 1) : fnOut.trace[j] # name
    ELSE 0

ConnectionOpened == fnPc = "done" /\ Called("connect") /\ fnIn.w.connect

\* the body's steps, in the order the operation makes them
BodySteps ==
    IF fnIn.op = "test_connection" \/ (fnIn.w.cursor /\ fnIn.w.execute)
    THEN <<"cursor", "execute", "fetchall", "cursor_close">>
    ELSE <<"cursor", "execute", "cursor_close">>

\* the steps of the body that were made and raised
BodyErrors ==
    {name \in {"cursor", "execute", "fetchall", "cursor_close"} :
        Called(name) /\ ~fnIn.w[name]}

BodyFailed == ConnectionOpened /\ BodyErrors # {}
BodyCompleted == ConnectionOpened /\ BodyErrors = {}
CommitFailed == BodyCompleted /\ ~fnIn.w.commit

\* the error the body or the commit raised: of a try/finally pair, the later one
OriginalError ==
    IF CommitFailed THEN "commit"
    ELSE CHOOSE name \in BodyErrors :
            \A other \in BodyErrors : CallAt(other) <= CallAt(name)

----------------------------------------------------------------------------
(* Claims about the chat page's send_message (SpecSend) *)

SendDone == fnPc = "done"

IsTimeout(post) == post.kind = "Timeout"
IsGatewayTimeout(post) == post.kind = "HTTPError" /\ post.status = 504

\* every attempt but the last one made ended in a timeout or a 504
RetriedOnlyAfterTimeouts ==
    \A i \in 1..(fnOut.made - 1) :
        IsTimeout(fnIn.posts[i]) \/ IsGatewayTimeout(fnIn.posts[i])

SendResult ==
    SendDone =>
        LET last == fnIn.posts[fnOut.made] IN
        IF last.kind = "ok" THEN fnOut.ret = "body"
        ELSE /\ fnOut.ret = "None"
             /\ \/ fnOut.made = 3
                \/ ~(IsTimeout(last) \/ IsGatewayTimeout(last))

\* C25: send_message makes at most 3 attempts per question (1 initial + 2 retries); it
\* starts another attempt only after a timeout or a gateway-timeout (504) error, never
\* after a success or any other request failure; it always terminates, returning the
\* body of the first successful attempt, or nothing once a non-retryable failure
\* occurs or the retries are exhausted.
C25_BoundedRetries ==
    /\ [](fnOut.made <= 3 /\ RetriedOnlyAfterTimeouts /\ SendResult)
    /\ <>SendDone

\* the parts that do not depend on what counts as a gateway timeout
C25_TerminatesWithinThree ==
    /\ [](fnOut.made <= RetryCount + 1)
    /\ [](SendDone /\ fnOut.ret = "body" => fnIn.posts[fnOut.made].kind = "ok")
    /\ <>SendDone

----------------------------------------------------------------------------
(* Claims about the front end's session state (SpecSession) *)

LoggedOut == fnIn.op \in {"logout_chat", "logout_trials"}

\* C26: after a logout from the chat page or from the trial-selection page the
\* session's message history is empty, the authenticated flag is false and the
\* username and the selected trial are unset, so a later login in the same browser
\* session starts with no earlier messages.
C26_LogoutClearsSession ==
    /\ LoggedOut =>
          /\ fnOut.messages = <<>>
          /\ ~fnOut.authenticated
          /\ fnOut.username = {}
          /\ fnOut.selected_trial = {}
    /\ fnIn.op = "login" => fnOut.messages = <<>>

\* what a logout does clear: the authenticated flag (and, on the trial-selection
\* page, the selected trial)
C26_LogoutClearsFlag ==
    /\ LoggedOut => ~fnOut.authenticated
    /\ fnIn.op = "logout_trials" => fnOut.selected_trial = {}

\* "new conversation" empties the message history and changes nothing else
C26_NewConversationOnlyClearsHistory ==
    [][fnIn'.op = "new_conversation" /\ fnIn' # fnIn =>
          /\ fnOut'.messages = <<>>
          /\ fnOut' = [fnOut EXCEPT !.messages = <<>>]
          /\ fnPc' = fnPc]_vars

----------------------------------------------------------------------------
(* Claims about the primary key of a migrated table (SpecPrimaryKey) *)

KeyColumns == {clean_column_name(col) : col \in fnIn.columns}

\* C29: the primary key of a migrated table is, for a table of the composite-key map,
\* the columns of that table's composite key that are present in the data, and for
\* any other table the single column subjid, or usubjid when subjid is absent; so
\* events with subjid, aeid and aeseqid gets the key (subjid, aeid, aeseqid).
C29_CompositePrimaryKey ==
    fnPc = "done" /\ (Subjid \in KeyColumns \/ Usubjid \in KeyColumns) =>
        IF IsCompositeTable(fnIn.table_name)
        THEN fnOut = Present(CompositeCols(fnIn.table_name), KeyColumns)
        ELSE fnOut = IF Subjid \in KeyColumns THEN <<Subjid>> ELSE <<Usubjid>>

\* what holds instead: every table is keyed by subjid alone, or by usubjid alone
\* when subjid is absent
C29_SingleColumnKey ==
    fnPc = "done" =>
        fnOut = IF Subjid \in KeyColumns THEN <<Subjid>>
                ELSE IF Usubjid \in KeyColumns THEN <<Usubjid>>
                ELSE <<>>

----------------------------------------------------------------------------
(* More claims about the migration (SpecMigrate) *)

FirstRunDone == Len(fnOut.after) >= 1

\* the files of the directory that are migrated to the table, in the order of the run
FilesFor(t) ==
    SelectSeq(SortByPriority(fnIn.dir), LAMBDA f : StrLower(f.stem) = t)

\* the file whose table is the one left under the name: the last one of the run
LastFileFor(t) == FilesFor(t)[Len(FilesFor(t))]

InsertionSucceeded(f) ==
    f.readable /\ f.nrows > 0 /\ ~DuplicateColumns(f) /\ ~f.bad_value /\ f.bad_row = 0

\* rows the table holds after the first run
RowsAfterRun(t) == {tb.rows : tb \in fnOut.after[1][t]}

\* C30: when the insertion of one file's rows fails part-way (in any batch, with any
\* kind of error), the rows already inserted for that table are rolled back: after
\* the run the table holds none of that file's rows, whatever is committed later;
\* the tool goes on with the next file, and the tables of the other files hold
\* their rows.
C30_FailedInsertLeavesNoRows ==
    FirstRunDone =>
        \A t \in TableNames :
            FilesFor(t) # <<>> =>
                /\ InsertionFailed(LastFileFor(t)) => RowsAfterRun(t) = {0}
                /\ InsertionSucceeded(LastFileFor(t)) =>
                      RowsAfterRun(t) = {LastFileFor(t).nrows}

\* what holds instead: the same when the error is a mysql Error, the only kind
\* create_table_with_schema rolls back on
C30_ServerErrorLeavesNoRows ==
    FirstRunDone =>
        \A t \in TableNames :
            FilesFor(t) # <<>> =>
                /\ InsertionFailed(LastFileFor(t)) /\ LastFileFor(t).bad_exc = "Error" =>
                      RowsAfterRun(t) = {0}
                /\ InsertionSucceeded(LastFileFor(t)) =>
                      RowsAfterRun(t) = {LastFileFor(t).nrows}

====
